---- MODULE Spec2Model ----
(***************************************************************************)
(* A model of Clever/csvutil: the struct-tag driven CSV Decoder / Encoder. *)
(*                                                                         *)
(* Strings are sequences of one-character strings, so that trimming,       *)
(* lowercasing, splitting, joining, integer parsing and rendering are      *)
(* computed and not assumed.                                               *)
(***************************************************************************)
EXTENDS Integers, Sequences, FiniteSets, TLC

(***************************************************************************)
(* strings / strconv                                                       *)
(***************************************************************************)

UpperChars == <<"A", "B", "C", "D", "E", "F", "G", "H", "I", "J", "K", "L", "M",
                "N", "O", "P", "Q", "R", "S", "T", "U", "V", "W", "X", "Y", "Z">>

LowerChars == <<"a", "b", "c", "d", "e", "f", "g", "h", "i", "j", "k", "l", "m",
                "n", "o", "p", "q", "r", "s", "t", "u", "v", "w", "x", "y", "z">>

DigitChars == <<"0", "1", "2", "3", "4", "5", "6", "7", "8", "9">>

Range(s) == {s[i] : i \in DOMAIN s}

IsSpace(c) == c \in {" ", "\t"}

IsUpper(c) == c \in Range(UpperChars)

IsLower(c) == c \in Range(LowerChars)

IsDigit(c) == c \in Range(DigitChars)

ToLowerCh(c) ==
    IF IsUpper(c)
    THEN LowerChars[CHOOSE i \in DOMAIN UpperChars : UpperChars[i] = c]
    ELSE c

ToLower(s) == [i \in 1..Len(s) |-> ToLowerCh(s[i])]

RECURSIVE TrimLeft(_)
TrimLeft(s) ==
    IF s = <<>> THEN <<>>
    ELSE IF IsSpace(Head(s)) THEN TrimLeft(Tail(s)) ELSE s

RECURSIVE TrimRight(_)
TrimRight(s) ==
    IF s = <<>> THEN <<>>
    ELSE IF IsSpace(s[Len(s)]) THEN TrimRight(SubSeq(s, 1, Len(s) - 1)) ELSE s

TrimSpace(s) == TrimRight(TrimLeft(s))

\* strings.Split(s, sep) for a one-character separator: "" splits to [""].
RECURSIVE Split(_, _)
Split(s, sep) ==
    IF \E i \in 1..Len(s) : s[i] = sep
    THEN LET i == CHOOSE k \in 1..Len(s) :
                      s[k] = sep /\ \A j \in 1..(k - 1) : s[j] # sep
         IN  <<SubSeq(s, 1, i - 1)>> \o Split(SubSeq(s, i + 1, Len(s)), sep)
    ELSE <<s>>

\* strings.Join(elems, sep)
RECURSIVE Join(_, _)
Join(elems, sep) ==
    IF elems = <<>> THEN <<>>
    ELSE IF Len(elems) = 1 THEN elems[1]
    ELSE elems[1] \o <<sep>> \o Join(Tail(elems), sep)

DigitVal(c) == (CHOOSE i \in DOMAIN DigitChars : DigitChars[i] = c) - 1

RECURSIVE DigitsVal(_, _)
DigitsVal(s, acc) ==
    IF s = <<>> THEN acc ELSE DigitsVal(Tail(s), acc * 10 + DigitVal(Head(s)))

\* strconv.Atoi: an optional sign followed by one or more decimal digits.
Atoi(s) ==
    LET signed == s # <<>> /\ Head(s) \in {"+", "-"}
        digits == IF signed THEN Tail(s) ELSE s
        ok     == digits # <<>> /\ \A i \in DOMAIN digits : IsDigit(digits[i])
        mag    == IF ok THEN DigitsVal(digits, 0) ELSE 0
    IN  [ok  |-> ok,
         val |-> IF signed /\ Head(s) = "-" THEN 0 - mag ELSE mag]

RECURSIVE NatDigits(_)
NatDigits(n) ==
    IF n < 10 THEN <<DigitChars[n + 1]>>
    ELSE NatDigits(n \div 10) \o <<DigitChars[(n % 10) + 1]>>

\* strconv.Itoa
Itoa(n) == IF n < 0 THEN <<"-">> \o NatDigits(0 - n) ELSE NatDigits(n)

TrueLiterals == {<<"1">>, <<"t">>, <<"T">>, <<"t", "r", "u", "e">>,
                 <<"T", "R", "U", "E">>, <<"T", "r", "u", "e">>}

FalseLiterals == {<<"0">>, <<"f">>, <<"F">>, <<"f", "a", "l", "s", "e">>,
                  <<"F", "A", "L", "S", "E">>, <<"F", "a", "l", "s", "e">>}

\* strconv.ParseBool
ParseBool(s) == [ok |-> s \in (TrueLiterals \cup FalseLiterals), val |-> s \in TrueLiterals]

\* strconv.FormatBool
FormatBool(b) == IF b THEN <<"t", "r", "u", "e">> ELSE <<"f", "a", "l", "s", "e">>

(***************************************************************************)
(* errors: every error value has the same shape                            *)
(***************************************************************************)

MkErr(kind, name, val, a, b) == [kind |-> kind, name |-> name, val |-> val, a |-> a, b |-> b]

NilErr == MkErr("nil", <<>>, <<>>, 0, 0)

\* io.EOF, the sentinel returned by the row reader and passed through by Read
EOF == MkErr("EOF", <<>>, <<>>, 0, 0)

(***************************************************************************)
(* field types of the record types: kind, element kind and the method sets *)
(* of the value form and of the pointer form of the type                   *)
(***************************************************************************)

TypeNames == {"string", "int", "bool", "[]string", "[]int", "[]bool",
              "*Time", "CustomTime", "A", "*A", "B", "M"}

\* reflect.Type.Kind()
KindOf(typ) ==
    CASE typ \in {"string", "M"} -> "String"
      [] typ = "int" -> "Int"
      [] typ = "bool" -> "Bool"
      [] typ \in {"[]string", "[]int", "[]bool"} -> "Slice"
      [] typ \in {"*Time", "*A"} -> "Ptr"
      [] OTHER -> "Struct"

\* reflect.Type.Elem().Kind() of a slice type
ElemKindOf(typ) ==
    CASE typ = "[]string" -> "String"
      [] typ = "[]int" -> "Int"
      [] OTHER -> "Bool"

\* methods with a value receiver (the method set of T)
ValMethods(typ) ==
    CASE typ \in {"*Time", "CustomTime"} -> {"MarshalText"}
      [] OTHER -> {}

\* methods of the pointer form (the method set of *T)
PtrMethods(typ) ==
    CASE typ \in {"*Time", "CustomTime"} -> {"MarshalText", "UnmarshalText"}
      [] typ \in {"A", "*A"} -> {"MarshalText"}
      [] typ \in {"B", "M"} -> {"UnmarshalText"}
      [] OTHER -> {}

doesImplement(typ, ifc) == ifc \in PtrMethods(typ)

(***************************************************************************)
(* mapping.go                                                              *)
(***************************************************************************)

csvField(required, fieldName, fieldIndex, fieldType, sliceType, cm, cu) ==
    [required |-> required, fieldName |-> fieldName, fieldIndex |-> fieldIndex,
     fieldType |-> fieldType, sliceType |-> sliceType,
     customMarshaler |-> cm, customUnmarshaler |-> cu]

\* the zero csvField: an unmapped slot of a Decoder's mappings
ZeroField == csvField(FALSE, <<>>, 0, "Invalid", "Invalid", FALSE, FALSE)

\* the regexp ^[a-z].*$ on a Go field name
unexportedfield(name) == name # <<>> /\ IsLower(Head(name))

\* as deriveFrom, with fieldIndex counting the fields that carry a column name
RECURSIVE deriveFrom_denseIndex(_, _, _)
deriveFrom_denseIndex(fields, i, csvMappings) ==
    IF i > Len(fields)
    THEN IF csvMappings = <<>>
         THEN [err |-> MkErr("no fields found", <<>>, <<>>, 0, 0), mappings |-> <<>>]
         ELSE [err |-> NilErr, mappings |-> csvMappings]
    ELSE
      LET fieldInfo     == fields[i]
          tags          == Split(fieldInfo.tag, ",")
          csvFieldName  == tags[1]
          requiredField == Len(tags) = 2
          kind          == KindOf(fieldInfo.typ)
          fieldType     == IF kind \in {"String", "Int", "Bool", "Slice"} THEN kind ELSE "Invalid"
          sliceType     == IF kind = "Slice" THEN ElemKindOf(fieldInfo.typ) ELSE "Invalid"
          field         == csvField(requiredField, csvFieldName, Len(csvMappings), fieldType, sliceType,
                                    doesImplement(fieldInfo.typ, "MarshalText"),
                                    doesImplement(fieldInfo.typ, "UnmarshalText"))
          fail(e)       == [err |-> e, mappings |-> <<>>]
      IN  IF Len(tags) > 2
            THEN fail(MkErr("malformed tag", <<>>, <<>>, Len(tags), 0))
          ELSE IF csvFieldName = <<>>
            THEN deriveFrom_denseIndex(fields, i + 1, csvMappings)
          ELSE IF unexportedfield(fieldInfo.name)
            THEN fail(MkErr("cannot access field", fieldInfo.name, <<>>, 0, 0))
          ELSE IF Len(tags) = 2 /\ tags[2] # <<"r", "e", "q", "u", "i", "r", "e", "d">>
            THEN fail(MkErr("unknown second value", <<>>, tags[2], 0, 0))
          ELSE IF kind = "Slice" /\ sliceType \notin {"String", "Int"}
            THEN fail(MkErr("only string & int slices allowed", <<>>, <<>>, 0, 0))
          ELSE IF \E k \in DOMAIN csvMappings : csvMappings[k].fieldName = field.fieldName
            THEN fail(MkErr("two attributes", field.fieldName, <<>>, 0, 0))
          ELSE deriveFrom_denseIndex(fields, i + 1, Append(csvMappings, field))

\* as deriveFrom, with the second token of the tag examined before the column name
RECURSIVE deriveFrom_grammarFirst(_, _, _)
deriveFrom_grammarFirst(fields, i, csvMappings) ==
    IF i > Len(fields)
    THEN IF csvMappings = <<>>
         THEN [err |-> MkErr("no fields found", <<>>, <<>>, 0, 0), mappings |-> <<>>]
         ELSE [err |-> NilErr, mappings |-> csvMappings]
    ELSE
      LET fieldInfo     == fields[i]
          tags          == Split(fieldInfo.tag, ",")
          csvFieldName  == tags[1]
          requiredField == Len(tags) = 2
          kind          == KindOf(fieldInfo.typ)
          fieldType     == IF kind \in {"String", "Int", "Bool", "Slice"} THEN kind ELSE "Invalid"
          sliceType     == IF kind = "Slice" THEN ElemKindOf(fieldInfo.typ) ELSE "Invalid"
          field         == csvField(requiredField, csvFieldName, i - 1, fieldType, sliceType,
                                    doesImplement(fieldInfo.typ, "MarshalText"),
                                    doesImplement(fieldInfo.typ, "UnmarshalText"))
          fail(e)       == [err |-> e, mappings |-> <<>>]
      IN  IF Len(tags) > 2
            THEN fail(MkErr("malformed tag", <<>>, <<>>, Len(tags), 0))
          ELSE IF Len(tags) = 2 /\ tags[2] # <<"r", "e", "q", "u", "i", "r", "e", "d">>
            THEN fail(MkErr("unknown second value", <<>>, tags[2], 0, 0))
          ELSE IF csvFieldName = <<>>
            THEN deriveFrom_grammarFirst(fields, i + 1, csvMappings)
          ELSE IF unexportedfield(fieldInfo.name)
            THEN fail(MkErr("cannot access field", fieldInfo.name, <<>>, 0, 0))
          ELSE IF kind = "Slice" /\ sliceType \notin {"String", "Int"}
            THEN fail(MkErr("only string & int slices allowed", <<>>, <<>>, 0, 0))
          ELSE IF \E k \in DOMAIN csvMappings : csvMappings[k].fieldName = field.fieldName
            THEN fail(MkErr("two attributes", field.fieldName, <<>>, 0, 0))
          ELSE deriveFrom_grammarFirst(fields, i + 1, Append(csvMappings, field))

RECURSIVE deriveFrom(_, _, _)
deriveFrom(fields, i, csvMappings) ==
    IF i > Len(fields)
    THEN IF csvMappings = <<>>
         THEN [err |-> MkErr("no fields found", <<>>, <<>>, 0, 0), mappings |-> <<>>]
         ELSE [err |-> NilErr, mappings |-> csvMappings]
    ELSE
      LET fieldInfo     == fields[i]
          tags          == Split(fieldInfo.tag, ",")
          csvFieldName  == tags[1]
          requiredField == Len(tags) = 2
          kind          == KindOf(fieldInfo.typ)
          fieldType     == IF kind \in {"String", "Int", "Bool", "Slice"} THEN kind ELSE "Invalid"
          sliceType     == IF kind = "Slice" THEN ElemKindOf(fieldInfo.typ) ELSE "Invalid"
          field         == csvField(requiredField, csvFieldName, i - 1, fieldType, sliceType,
                                    doesImplement(fieldInfo.typ, "MarshalText"),
                                    doesImplement(fieldInfo.typ, "UnmarshalText"))
          fail(e)       == [err |-> e, mappings |-> <<>>]
      IN  IF Len(tags) > 2
            THEN fail(MkErr("malformed tag", <<>>, <<>>, Len(tags), 0))
          ELSE IF csvFieldName = <<>>
            THEN deriveFrom(fields, i + 1, csvMappings)
          ELSE IF unexportedfield(fieldInfo.name)
            THEN fail(MkErr("cannot access field", fieldInfo.name, <<>>, 0, 0))
          ELSE IF Len(tags) = 2 /\ tags[2] # <<"r", "e", "q", "u", "i", "r", "e", "d">>
            THEN fail(MkErr("unknown second value", <<>>, tags[2], 0, 0))
          ELSE IF kind = "Slice" /\ sliceType \notin {"String", "Int"}
            THEN fail(MkErr("only string & int slices allowed", <<>>, <<>>, 0, 0))
          ELSE IF \E k \in DOMAIN csvMappings : csvMappings[k].fieldName = field.fieldName
            THEN fail(MkErr("two attributes", field.fieldName, <<>>, 0, 0))
          ELSE deriveFrom(fields, i + 1, Append(csvMappings, field))

structureFromStruct(dest) ==
    IF dest.isNil
    THEN [err |-> MkErr("struct is nil", <<>>, <<>>, 0, 0), mappings |-> <<>>]
    ELSE deriveFrom(dest.fields, 1, <<>>)

(***************************************************************************)
(* values held by the fields of a record                                   *)
(***************************************************************************)

Slice(elems) == [isNil |-> FALSE, elems |-> elems]

NilSlice == [isNil |-> TRUE, elems |-> <<>>]

Custom(text) == [isNil |-> FALSE, text |-> text]

NilPtr == [isNil |-> TRUE, text |-> <<>>]

\* the zero value of a Go type
ZeroValue(typ) ==
    CASE KindOf(typ) = "String" -> <<>>
      [] KindOf(typ) = "Int" -> 0
      [] KindOf(typ) = "Bool" -> FALSE
      [] KindOf(typ) = "Slice" -> NilSlice
      [] KindOf(typ) = "Ptr" -> NilPtr
      [] OTHER -> Custom(<<>>)

\* the zero record of a record type (var val S)
ZeroRecord(t) == [i \in 1..Len(t.fields) |-> ZeroValue(t.fields[i].typ)]

\* time.Parse as used by the text codecs of the time types: digits and separators
ParseTimeOK(text) ==
    text # <<>> /\ \A i \in DOMAIN text : IsDigit(text[i]) \/ text[i] \in {",", "-", ":", "/"}

\* the UnmarshalText methods of the field types, applied to the value cur
UnmarshalText(typ, cur, text) ==
    CASE typ = "M" -> [ok |-> TRUE, val |-> <<"f", "o", "o">> \o text]
      [] typ = "*Time" ->
           [ok |-> ParseTimeOK(text), val |-> IF ParseTimeOK(text) THEN Custom(text) ELSE Custom(<<>>)]
      [] typ = "CustomTime" ->
           [ok |-> ParseTimeOK(text), val |-> IF ParseTimeOK(text) THEN Custom(text) ELSE cur]
      [] OTHER -> [ok |-> TRUE, val |-> cur]

(***************************************************************************)
(* the row reader (encoding/csv.Reader) as the Decoder uses it             *)
(***************************************************************************)

\* csv.Reader.Read: the next record, io.EOF at the end of the input, and
\* ErrFieldCount when FieldsPerRecord is 0 and the record's length differs
\* from the first record's.  rec is the record the input holds at the cursor.
csvRead(atEnd, rec, fieldsPerRecord, firstLen) ==
    IF atEnd THEN [row |-> <<>>, err |-> EOF, consumed |-> 0]
    ELSE IF fieldsPerRecord = 0 /\ firstLen > 0 /\ Len(rec) # firstLen
      THEN [row |-> rec, err |-> MkErr("wrong number of fields", <<>>, <<>>, 0, 0), consumed |-> 1]
    ELSE [row |-> rec, err |-> NilErr, consumed |-> 1]

(***************************************************************************)
(* decode.go                                                               *)
(***************************************************************************)

normalizeHeader_lowerOnly(header) == ToLower(header)

\* normalizeHeader lowercases and trims whitespace
normalizeHeader(header) == ToLower(TrimSpace(header))

headerKey_raw(raw) == raw

\* h = normalizeHeader(h), the first statement of the header loop
headerKey(raw) == normalizeHeader(raw)

\* as slotFor, with the first field in a slot that no field matches
RECURSIVE slotFor_neverEmpty(_, _, _, _)
slotFor_neverEmpty(h, mappings, k, slot) ==
    IF k > Len(mappings) THEN (IF slot.fieldName = <<>> THEN mappings[1] ELSE slot)
    ELSE slotFor_neverEmpty(h, mappings, k + 1,
                 IF h = normalizeHeader(mappings[k].fieldName) THEN mappings[k] ELSE slot)

\* the inner loop of NewDecoderFromCSVReader: every matching field is
\* assigned to the slot in turn, so the slot ends with the last one
RECURSIVE slotFor(_, _, _, _)
slotFor(h, mappings, k, slot) ==
    IF k > Len(mappings) THEN slot
    ELSE slotFor(h, mappings, k + 1,
                 IF h = normalizeHeader(mappings[k].fieldName) THEN mappings[k] ELSE slot)

\* the header loop of NewDecoderFromCSVReader
RECURSIVE sortHeaders(_, _, _, _, _)
sortHeaders(headers, mappings, i, sortedMappings, headersSeen) ==
    IF i > Len(headers)
    THEN [err |-> NilErr, sortedMappings |-> sortedMappings, headersSeen |-> headersSeen]
    ELSE LET h == headerKey(headers[i])
         IN  IF h \in headersSeen
             THEN [err |-> MkErr("saw header column twice", <<>>, h, 0, 0),
                   sortedMappings |-> <<>>, headersSeen |-> headersSeen]
             ELSE sortHeaders(headers, mappings, i + 1,
                              Append(sortedMappings, slotFor(h, mappings, 1, ZeroField)),
                              headersSeen \cup {h})

RECURSIVE requiredCheck_rawName(_, _, _)
requiredCheck_rawName(mappings, k, headersSeen) ==
    IF k > Len(mappings) THEN NilErr
    ELSE IF mappings[k].required /\ mappings[k].fieldName \notin headersSeen
      THEN MkErr("required but not found", mappings[k].fieldName, <<>>, 0, 0)
    ELSE requiredCheck_rawName(mappings, k + 1, headersSeen)

\* the loop "Ensure that all required columns are present": the first miss
RECURSIVE requiredCheck(_, _, _)
requiredCheck(mappings, k, headersSeen) ==
    IF k > Len(mappings) THEN NilErr
    ELSE IF mappings[k].required /\ normalizeHeader(mappings[k].fieldName) \notin headersSeen
      THEN MkErr("required but not found", mappings[k].fieldName, <<>>, 0, 0)
    ELSE requiredCheck(mappings, k + 1, headersSeen)

\* as auditUnmarshalers, with no field looked at
auditUnmarshalers_skipped(mappings, k) == NilErr

\* the audit loop of NewDecoderFromCSVReader: the first opaque field without a text decoder
RECURSIVE auditUnmarshalers(_, _)
auditUnmarshalers(mappings, k) ==
    IF k > Len(mappings) THEN NilErr
    ELSE IF mappings[k].fieldType = "Invalid" /\ ~mappings[k].customUnmarshaler
      THEN MkErr("unsupported field type: TextUnmarshaler", mappings[k].fieldName, <<>>, 0, 0)
    ELSE auditUnmarshalers(mappings, k + 1)

ZeroDecoder == [mappings |-> <<>>, numColumns |-> 0]

\* as NewDecoderFromCSVReader, with the header record taken from the reader
\* before the record type is looked at
NewDecoderFromCSVReader_headerFirst(dest, hasHeader, headers) ==
    LET derived == structureFromStruct(dest)
        audit   == auditUnmarshalers(derived.mappings, 1)
        hread   == csvRead(~hasHeader, headers, 0, 0)
        sorted  == sortHeaders(headers, derived.mappings, 1, <<>>, {})
        reqErr  == requiredCheck(derived.mappings, 1, sorted.headersSeen)
        fail(e, c) == [d |-> ZeroDecoder, err |-> e, consumed |-> c]
    IN  IF hread.err # NilErr
          THEN fail(MkErr("failed to find headers", <<>>, <<>>, 0, 0), hread.consumed)
        ELSE IF derived.err # NilErr THEN fail(derived.err, 1)
        ELSE IF audit # NilErr THEN fail(audit, 1)
        ELSE IF sorted.err # NilErr THEN fail(sorted.err, 1)
        ELSE IF reqErr # NilErr THEN fail(reqErr, 1)
        ELSE [d |-> [mappings |-> sorted.sortedMappings, numColumns |-> Len(headers)],
              err |-> NilErr, consumed |-> 1]

\* as NewDecoderFromCSVReader, with numColumns taken from the record type
NewDecoderFromCSVReader_fieldCount(dest, hasHeader, headers) ==
    LET derived == structureFromStruct(dest)
        audit   == auditUnmarshalers(derived.mappings, 1)
        hread   == csvRead(~hasHeader, headers, 0, 0)
        sorted  == sortHeaders(headers, derived.mappings, 1, <<>>, {})
        reqErr  == requiredCheck(derived.mappings, 1, sorted.headersSeen)
        fail(e, c) == [d |-> ZeroDecoder, err |-> e, consumed |-> c]
    IN  IF derived.err # NilErr THEN fail(derived.err, 0)
        ELSE IF audit # NilErr THEN fail(audit, 0)
        ELSE IF hread.err # NilErr
          THEN fail(MkErr("failed to find headers", <<>>, <<>>, 0, 0), hread.consumed)
        ELSE IF sorted.err # NilErr THEN fail(sorted.err, 1)
        ELSE IF reqErr # NilErr THEN fail(reqErr, 1)
        ELSE [d |-> [mappings |-> sorted.sortedMappings, numColumns |-> Len(derived.mappings)],
              err |-> NilErr, consumed |-> 1]

\* NewDecoderFromCSVReader(csvR, dest).  hasHeader: the input holds a first
\* record, headers.  consumed: the records taken from the reader.
NewDecoderFromCSVReader(dest, hasHeader, headers) ==
    LET derived == structureFromStruct(dest)
        audit   == auditUnmarshalers(derived.mappings, 1)
        hread   == csvRead(~hasHeader, headers, 0, 0)
        sorted  == sortHeaders(headers, derived.mappings, 1, <<>>, {})
        reqErr  == requiredCheck(derived.mappings, 1, sorted.headersSeen)
        fail(e, c) == [d |-> ZeroDecoder, err |-> e, consumed |-> c]
    IN  IF derived.err # NilErr THEN fail(derived.err, 0)
        ELSE IF audit # NilErr THEN fail(audit, 0)
        ELSE IF hread.err # NilErr
          THEN fail(MkErr("failed to find headers", <<>>, <<>>, 0, 0), hread.consumed)
        ELSE IF sorted.err # NilErr THEN fail(sorted.err, 1)
        ELSE IF reqErr # NilErr THEN fail(reqErr, 1)
        ELSE [d |-> [mappings |-> sorted.sortedMappings, numColumns |-> Len(headers)],
              err |-> NilErr, consumed |-> 1]

\* a run-time panic raised by Go itself: a failed type assertion, a method
\* reached through a nil pointer
PanicErr == MkErr("panic", <<>>, <<>>, 0, 0)

\* panic(fmt.Sprintf("type not found: %s", m.fieldType))
TypeNotFound == MkErr("panic: type not found", <<>>, <<>>, 0, 0)

\* panic("slice fields can only be string.")
SliceNotString == MkErr("panic: slice fields can only be string", <<>>, <<>>, 0, 0)

\* the call did not return: it panicked
IsPanic(err) == err \in {PanicErr, TypeNotFound, SliceNotString}

\* the element loop of a list-of-integer cell: all elements or the first failure
RECURSIVE atoiAll(_, _, _)
atoiAll(arrayStrValues, i, arrayIntValues) ==
    IF i > Len(arrayStrValues) THEN [ok |-> TRUE, vals |-> arrayIntValues, at |-> 0]
    ELSE IF ~Atoi(arrayStrValues[i]).ok THEN [ok |-> FALSE, vals |-> <<>>, at |-> i - 1]
    ELSE atoiAll(arrayStrValues, i + 1, Append(arrayIntValues, Atoi(arrayStrValues[i]).val))

\* strValue = strings.TrimSpace(strValue)
cellValue_untrimmed(row, i) == row[i]

cellValue(row, i) == TrimSpace(row[i])

valueMissing_builtinOnly(m, strValue) == strValue = <<>> /\ ~m.customUnmarshaler

\* if strValue == "", tested before the custom decoder and the kinds
valueMissing(m, strValue) == strValue = <<>>

\* as decodeFrom, with the elements parsed before a failing one assigned to the field
RECURSIVE decodeFrom_prefixKept(_, _, _, _, _, _)
decodeFrom_prefixKept(t, mappings, row, i, dest, calls) ==
    IF i > Len(row) THEN [err |-> NilErr, dest |-> dest, calls |-> calls]
    ELSE
      LET strValue == cellValue(row, i)
          m        == mappings[i]
          idx      == m.fieldIndex + 1
          typ      == t.fields[idx].typ
          cur      == dest[idx]
          target   == IF KindOf(typ) # "Ptr" THEN cur
                      ELSE IF cur.isNil THEN Custom(<<>>) ELSE cur
          u        == UnmarshalText(typ, target, strValue)
          arrayStrValues == Split(strValue, ",")
          ints     == atoiAll(arrayStrValues, 1, <<>>)
          set(v)   == [dest EXCEPT ![idx] = v]
          stop(e, dst, cs) == [err |-> e, dest |-> dst, calls |-> cs]
          next(dst, cs)    == decodeFrom_prefixKept(t, mappings, row, i + 1, dst, cs)
      IN  IF m.fieldName = <<>> THEN next(dest, calls)
          ELSE IF valueMissing(m, strValue)
            THEN IF m.required
                 THEN stop(MkErr("required but no value found", m.fieldName, <<>>, 0, 0), dest, calls)
                 ELSE next(dest, calls)
          ELSE IF m.customUnmarshaler
            THEN IF u.ok
                 THEN next(set(u.val), Append(calls, strValue))
                 ELSE stop(MkErr("failed to coerce using custom marshaler", m.fieldName, strValue, 0, 0),
                           set(u.val), Append(calls, strValue))
          ELSE IF m.fieldType = "String" THEN next(set(strValue), calls)
          ELSE IF m.fieldType = "Int"
            THEN IF Atoi(strValue).ok
                 THEN next(set(Atoi(strValue).val), calls)
                 ELSE stop(MkErr("failed to coerce into integer", m.fieldName, strValue, 0, 0), dest, calls)
          ELSE IF m.fieldType = "Bool"
            THEN IF ParseBool(strValue).ok
                 THEN next(set(ParseBool(strValue).val), calls)
                 ELSE stop(MkErr("failed to coerce into boolean", m.fieldName, strValue, 0, 0), dest, calls)
          ELSE IF m.fieldType = "Slice" /\ m.sliceType = "String"
            THEN next(set(Slice(arrayStrValues)), calls)
          ELSE IF m.fieldType = "Slice" /\ m.sliceType = "Int"
            THEN IF ints.ok
                 THEN next(set(Slice(ints.vals)), calls)
                 ELSE stop(MkErr("failed to coerce element into integer", m.fieldName,
                                 arrayStrValues[ints.at + 1], ints.at, 0),
                           set(Slice([k \in 1..ints.at |-> Atoi(arrayStrValues[k]).val])), calls)
          ELSE IF m.fieldType = "Slice" THEN stop(SliceNotString, dest, calls)
          ELSE stop(TypeNotFound, dest, calls)

\* the cell loop of Decoder.Read from column i on.  t is the record type of
\* the destination, calls the texts handed to UnmarshalText so far.
RECURSIVE decodeFrom(_, _, _, _, _, _)
decodeFrom(t, mappings, row, i, dest, calls) ==
    IF i > Len(row) THEN [err |-> NilErr, dest |-> dest, calls |-> calls]
    ELSE
      LET strValue == cellValue(row, i)
          m        == mappings[i]
          idx      == m.fieldIndex + 1
          typ      == t.fields[idx].typ
          cur      == dest[idx]
          target   == IF KindOf(typ) # "Ptr" THEN cur
                      ELSE IF cur.isNil THEN Custom(<<>>) ELSE cur
          u        == UnmarshalText(typ, target, strValue)
          arrayStrValues == Split(strValue, ",")
          ints     == atoiAll(arrayStrValues, 1, <<>>)
          set(v)   == [dest EXCEPT ![idx] = v]
          stop(e, dst, cs) == [err |-> e, dest |-> dst, calls |-> cs]
          next(dst, cs)    == decodeFrom(t, mappings, row, i + 1, dst, cs)
      IN  IF m.fieldName = <<>> THEN next(dest, calls)
          ELSE IF valueMissing(m, strValue)
            THEN IF m.required
                 THEN stop(MkErr("required but no value found", m.fieldName, <<>>, 0, 0), dest, calls)
                 ELSE next(dest, calls)
          ELSE IF m.customUnmarshaler
            THEN IF u.ok
                 THEN next(set(u.val), Append(calls, strValue))
                 ELSE stop(MkErr("failed to coerce using custom marshaler", m.fieldName, strValue, 0, 0),
                           set(u.val), Append(calls, strValue))
          ELSE IF m.fieldType = "String" THEN next(set(strValue), calls)
          ELSE IF m.fieldType = "Int"
            THEN IF Atoi(strValue).ok
                 THEN next(set(Atoi(strValue).val), calls)
                 ELSE stop(MkErr("failed to coerce into integer", m.fieldName, strValue, 0, 0), dest, calls)
          ELSE IF m.fieldType = "Bool"
            THEN IF ParseBool(strValue).ok
                 THEN next(set(ParseBool(strValue).val), calls)
                 ELSE stop(MkErr("failed to coerce into boolean", m.fieldName, strValue, 0, 0), dest, calls)
          ELSE IF m.fieldType = "Slice" /\ m.sliceType = "String"
            THEN next(set(Slice(arrayStrValues)), calls)
          ELSE IF m.fieldType = "Slice" /\ m.sliceType = "Int"
            THEN IF ints.ok
                 THEN next(set(Slice(ints.vals)), calls)
                 ELSE stop(MkErr("failed to coerce element into integer", m.fieldName,
                                 arrayStrValues[ints.at + 1], ints.at, 0), dest, calls)
          ELSE IF m.fieldType = "Slice" THEN stop(SliceNotString, dest, calls)
          ELSE stop(TypeNotFound, dest, calls)

DestKinds == {"ptr", "nil", "value", "iface"}

\* what Read returns for an error of the row reader: io.EOF itself, any other wrapped
readError_wrapped(err) == MkErr("failed to read CSV row", <<>>, <<>>, 0, 0)

readError(err) == IF err = EOF THEN EOF ELSE MkErr("failed to read CSV row", <<>>, <<>>, 0, 0)

\* as Read, with the destination set to the zero record before the row is decoded
Read_resetFirst(d, t, destKind, dest, atEnd, rec, fieldsPerRecord) ==
    LET r == csvRead(atEnd, rec, fieldsPerRecord, d.numColumns)
        decoded == decodeFrom(t, d.mappings, r.row, 1, ZeroRecord(t), <<>>)
        ret(e, c) == [err |-> e, dest |-> dest, consumed |-> c, calls |-> <<>>]
    IN  IF destKind = "nil" THEN ret(MkErr("destination cannot be nil", <<>>, <<>>, 0, 0), 0)
        ELSE IF destKind = "value" THEN ret(MkErr("destination must be pointer", <<>>, <<>>, 0, 0), 0)
        ELSE IF destKind = "iface" THEN ret(MkErr("destination cannot be an interface", <<>>, <<>>, 0, 0), 0)
        ELSE IF r.err # NilErr THEN ret(readError(r.err), r.consumed)
        ELSE IF Len(r.row) # d.numColumns
          THEN ret(MkErr("expected columns", <<>>, <<>>, d.numColumns, Len(r.row)), r.consumed)
        ELSE [err |-> decoded.err, dest |-> decoded.dest, consumed |-> r.consumed,
              calls |-> decoded.calls]

\* as Read, but a row that fails to decode leaves the destination as it was passed
Read_restoring(d, t, destKind, dest, atEnd, rec, fieldsPerRecord) ==
    LET r == csvRead(atEnd, rec, fieldsPerRecord, d.numColumns)
        decoded == decodeFrom(t, d.mappings, r.row, 1, dest, <<>>)
        ret(e, c) == [err |-> e, dest |-> dest, consumed |-> c, calls |-> <<>>]
    IN  IF destKind = "nil" THEN ret(MkErr("destination cannot be nil", <<>>, <<>>, 0, 0), 0)
        ELSE IF destKind = "value" THEN ret(MkErr("destination must be pointer", <<>>, <<>>, 0, 0), 0)
        ELSE IF destKind = "iface" THEN ret(MkErr("destination cannot be an interface", <<>>, <<>>, 0, 0), 0)
        ELSE IF r.err # NilErr THEN ret(readError(r.err), r.consumed)
        ELSE IF Len(r.row) # d.numColumns
          THEN ret(MkErr("expected columns", <<>>, <<>>, d.numColumns, Len(r.row)), r.consumed)
        ELSE [err |-> decoded.err,
              dest |-> IF decoded.err = NilErr THEN decoded.dest ELSE dest,
              consumed |-> r.consumed, calls |-> decoded.calls]

\* Decoder.Read(dest).  destKind: what the caller passes (a pointer to a
\* record, nil, a record by value, a pointer to an interface); dest: the
\* record pointed to; atEnd / rec: the reader's input at its cursor.
Read(d, t, destKind, dest, atEnd, rec, fieldsPerRecord) ==
    LET r == csvRead(atEnd, rec, fieldsPerRecord, d.numColumns)
        decoded == decodeFrom(t, d.mappings, r.row, 1, dest, <<>>)
        ret(e, c) == [err |-> e, dest |-> dest, consumed |-> c, calls |-> <<>>]
    IN  IF destKind = "nil" THEN ret(MkErr("destination cannot be nil", <<>>, <<>>, 0, 0), 0)
        ELSE IF destKind = "value" THEN ret(MkErr("destination must be pointer", <<>>, <<>>, 0, 0), 0)
        ELSE IF destKind = "iface" THEN ret(MkErr("destination cannot be an interface", <<>>, <<>>, 0, 0), 0)
        ELSE IF r.err # NilErr THEN ret(readError(r.err), r.consumed)
        ELSE IF Len(r.row) # d.numColumns
          THEN ret(MkErr("expected columns", <<>>, <<>>, d.numColumns, Len(r.row)), r.consumed)
        ELSE [err |-> decoded.err, dest |-> decoded.dest, consumed |-> r.consumed,
              calls |-> decoded.calls]

\* as matchedFrom, with the slots of unmatched columns kept
RECURSIVE matchedFrom_slotsKept(_, _, _)
matchedFrom_slotsKept(mappings, i, matchedHeaders) ==
    IF i > Len(mappings) THEN matchedHeaders
    ELSE matchedFrom_slotsKept(mappings, i + 1, Append(matchedHeaders, mappings[i].fieldName))

\* Decoder.MatchedHeaders
RECURSIVE matchedFrom(_, _, _)
matchedFrom(mappings, i, matchedHeaders) ==
    IF i > Len(mappings) THEN matchedHeaders
    ELSE matchedFrom(mappings, i + 1,
                     IF mappings[i].fieldName # <<>>
                     THEN Append(matchedHeaders, mappings[i].fieldName)
                     ELSE matchedHeaders)

MatchedHeaders(d) == matchedFrom(d.mappings, 1, <<>>)

(***************************************************************************)
(* the row writer (encoding/csv.Writer) as the Encoder uses it: Write puts *)
(* the cells of a record and a line end into the buffer, Flush moves the   *)
(* buffer to the output                                                    *)
(***************************************************************************)

CellToken(text) == [nl |-> FALSE, text |-> text]

LineEnd == [nl |-> TRUE, text |-> <<>>]

\* what csv.Writer.Write(record) puts into the buffer
RowTokens(record) == [i \in 1..Len(record) |-> CellToken(record[i])] \o <<LineEnd>>

\* the records of a token stream, a trailing unfinished record included
RECURSIVE recordsFrom(_, _, _)
recordsFrom(tokens, i, current) ==
    IF i > Len(tokens) THEN (IF current = <<>> THEN <<>> ELSE <<current>>)
    ELSE IF tokens[i].nl THEN <<current>> \o recordsFrom(tokens, i + 1, <<>>)
    ELSE recordsFrom(tokens, i + 1, Append(current, tokens[i].text))

Records(tokens) == recordsFrom(tokens, 1, <<>>)

(***************************************************************************)
(* encode.go                                                               *)
(***************************************************************************)

\* the method set of the static type of a field value: what the type
\* assertion v.Interface().(encoding.TextMarshaler) sees
MethodSet(typ) == IF KindOf(typ) = "Ptr" THEN PtrMethods(typ) ELSE ValMethods(typ)

\* a time.Time whose year MarshalText refuses
BadTime == Custom(<<"!">>)

\* u.MarshalText() on the field value val of type typ: text, error or panic
\* (a value-receiver method reached through a nil pointer)
MarshalText(typ, val) ==
    CASE typ = "*Time" /\ val.isNil -> [panic |-> TRUE, ok |-> FALSE, text |-> <<>>]
      [] typ \in {"*Time", "CustomTime"} /\ val = BadTime ->
           [panic |-> FALSE, ok |-> FALSE, text |-> <<>>]
      [] typ \in {"*Time", "CustomTime"} -> [panic |-> FALSE, ok |-> TRUE, text |-> val.text]
      [] OTHER -> [panic |-> FALSE, ok |-> TRUE, text |-> <<>>]

\* the rendering of a list-of-integer field
RECURSIVE itoaAll(_)
itoaAll(intArray) ==
    IF intArray = <<>> THEN <<>> ELSE <<Itoa(Head(intArray))>> \o itoaAll(Tail(intArray))

joinList_semicolon(elems) == Join(elems, ";")

\* strings.Join(..., ","): the rendering of a list from its elements' texts
joinList(elems) == Join(elems, ",")

\* the field loop of Encoder.Write from mapping i on
RECURSIVE encodeFrom(_, _, _, _, _)
encodeFrom(t, mappings, srcStruct, i, rowValues) ==
    IF i > Len(mappings) THEN [err |-> NilErr, rowValues |-> rowValues]
    ELSE
      LET m   == mappings[i]
          typ == t.fields[m.fieldIndex + 1].typ
          v   == srcStruct[m.fieldIndex + 1]
          u   == MarshalText(typ, v)
          stop(e)   == [err |-> e, rowValues |-> <<>>]
          next(txt) == encodeFrom(t, mappings, srcStruct, i + 1, Append(rowValues, txt))
      IN  IF m.customMarshaler
            THEN IF "MarshalText" \notin MethodSet(typ) \/ u.panic THEN stop(PanicErr)
                 ELSE IF ~u.ok
                   THEN stop(MkErr("failed to coerce using custom marshaler", m.fieldName, <<>>, 0, 0))
                 ELSE next(u.text)
          ELSE IF m.fieldType = "String" THEN next(v)
          ELSE IF m.fieldType = "Int" THEN next(Itoa(v))
          ELSE IF m.fieldType = "Bool" THEN next(FormatBool(v))
          ELSE IF m.fieldType = "Slice" /\ m.sliceType = "String" THEN next(joinList(v.elems))
          ELSE IF m.fieldType = "Slice" /\ m.sliceType = "Int" THEN next(joinList(itoaAll(v.elems)))
          ELSE IF m.fieldType = "Slice" THEN stop(SliceNotString)
          ELSE stop(TypeNotFound)

SrcKinds == {"value", "ptr", "nil"}

\* Encoder.Write up to the lock: the checks of src and the rendering of the row
encodeRow(e, t, srcKind, src) ==
    IF srcKind = "nil"
    THEN [err |-> MkErr("source cannot be nil", <<>>, <<>>, 0, 0), rowValues |-> <<>>]
    ELSE encodeFrom(t, e.mappings, src, 1, <<>>)

\* the audit loop of NewEncoderFromCSVWriter: the first opaque field without a text encoder
RECURSIVE auditMarshalers(_, _)
auditMarshalers(mappings, k) ==
    IF k > Len(mappings) THEN NilErr
    ELSE IF mappings[k].fieldType = "Invalid" /\ ~mappings[k].customMarshaler
      THEN MkErr("unsupported field type: TextMarshaler", mappings[k].fieldName, <<>>, 0, 0)
    ELSE auditMarshalers(mappings, k + 1)

\* the Encoder value: mu is a pointer to a mutex (its identity), 0 for none
ZeroEncoder == [mappings |-> <<>>, mu |-> 0]

deferredFlush_missing(buffer) == [flushed |-> <<>>, buffered |-> buffer]

\* defer csvW.Flush(): on return the buffer of the row writer goes to the output
deferredFlush(buffer) == [flushed |-> buffer, buffered |-> <<>>]

\* NewEncoderFromCSVWriter(csvW, dest).  writeOK: csvW.Write(headers) succeeds.
\* flushed: what has reached the output on return; buffered: what the row
\* writer still holds.
NewEncoderFromCSVWriter(dest, writeOK) ==
    LET derived == structureFromStruct(dest)
        audit   == auditMarshalers(derived.mappings, 1)
        hdrs    == [i \in 1..Len(derived.mappings) |-> derived.mappings[i].fieldName]
        fail(x, fl) == [e |-> ZeroEncoder, err |-> x, flushed |-> fl.flushed,
                        buffered |-> fl.buffered]
    IN  IF derived.err # NilErr THEN fail(derived.err, [flushed |-> <<>>, buffered |-> <<>>])
        ELSE IF audit # NilErr THEN fail(audit, deferredFlush(<<>>))
        ELSE IF ~writeOK
          THEN fail(MkErr("failed to write headers", <<>>, <<>>, 0, 0), deferredFlush(<<>>))
        ELSE [e |-> [mappings |-> derived.mappings, mu |-> 1], err |-> NilErr,
              flushed |-> deferredFlush(RowTokens(hdrs)).flushed,
              buffered |-> deferredFlush(RowTokens(hdrs)).buffered]

receiverCopy_ownMutex(e, p) == [e EXCEPT !.mu = p + 1]

\* the copy of the Encoder a call of Write works on (value receiver): the
\* fields are copied, mu still points to the same mutex
receiverCopy(e, p) == e

(***************************************************************************)
(* record types and inputs of the Decoder                                  *)
(***************************************************************************)

Required == <<"r", "e", "q", "u", "i", "r", "e", "d">>

\* the struct tag csv:"name" or csv:"name,required"
Tag(name, required) == IF required THEN name \o <<",">> \o Required ELSE name

FieldDecl(name, tag, typ) == [name |-> name, tag |-> tag, typ |-> typ]

Struct(fields) == [isNil |-> FALSE, fields |-> fields]

\* struct { Str string `csv:"s"`; N int `csv:"n,required"` }
TScenario == Struct(<<FieldDecl(<<"S", "t", "r">>, Tag(<<"s">>, FALSE), "string"),
                      FieldDecl(<<"N">>, Tag(<<"n">>, TRUE), "int")>>)

\* struct { StrField string `csv:"s,required"`; PtrField *time.Time `csv:"P,required"` }
TRequired == Struct(<<FieldDecl(<<"S">>, Tag(<<"s">>, TRUE), "string"),
                      FieldDecl(<<"P">>, Tag(<<"P">>, TRUE), "*Time")>>)

\* struct { B bool `csv:"B ,required"`; hidden string; Xs []int `csv:"xs,required"` }
TMixed == Struct(<<FieldDecl(<<"B">>, Tag(<<"B", " ">>, TRUE), "bool"),
                   FieldDecl(<<"h">>, <<>>, "string"),
                   FieldDecl(<<"X", "s">>, Tag(<<"x", "s">>, TRUE), "[]int")>>)

\* struct { Up string `csv:"S"`; Lo int `csv:"s"` }: names that differ by case only
TCase == Struct(<<FieldDecl(<<"U", "p">>, Tag(<<"S">>, FALSE), "string"),
                  FieldDecl(<<"L", "o">>, Tag(<<"s">>, FALSE), "int")>>)

\* struct { L []string `csv:"l"`; C CustomTime `csv:"c,required"`; M M `csv:"m"` }
TCustom == Struct(<<FieldDecl(<<"L">>, Tag(<<"l">>, FALSE), "[]string"),
                    FieldDecl(<<"C">>, Tag(<<"c">>, TRUE), "CustomTime"),
                    FieldDecl(<<"M">>, Tag(<<"m">>, FALSE), "M")>>)

\* struct { StrField A `csv:"a"` }: A has no UnmarshalText
TNoUnmarshal == Struct(<<FieldDecl(<<"A">>, Tag(<<"a">>, FALSE), "A")>>)

\* struct { X string `csv:"d"`; Y int `csv:"d"` }
TDup == Struct(<<FieldDecl(<<"X">>, Tag(<<"d">>, FALSE), "string"),
                 FieldDecl(<<"Y">>, Tag(<<"d">>, FALSE), "int")>>)

DecoderTypes == {TScenario, TRequired, TMixed, TCase, TCustom, TNoUnmarshal, TDup}

\* header cells tried against a record type: spellings of its column names and a foreign one
HeaderCells(t) ==
    CASE t = TScenario -> {<<"s">>, <<" ", "S">>, <<"n">>, <<"x">>}
      [] t = TRequired -> {<<"s">>, <<"P", " ">>, <<"p">>, <<"x">>}
      [] t = TMixed    -> {<<"b">>, <<"X", "S">>, <<"x">>}
      [] t = TCase     -> {<<"s">>, <<"S">>, <<"x">>}
      [] t = TCustom   -> {<<"c">>, <<"L">>, <<"m">>}
      [] OTHER         -> {<<"a">>, <<"d">>}

\* the header rows tried: one or two cells, a repeated cell around a foreign
\* one, and "s,xx,n"
Headers(t) ==
    [1..1 -> HeaderCells(t)] \cup [1..2 -> HeaderCells(t)]
      \cup {<<c, <<"x", "x">>, c>> : c \in HeaderCells(t)}
      \cup (IF t = TScenario THEN {<< <<"s">>, <<"x", "x">>, <<"n">> >>} ELSE {})

\* the data cells tried in a column, by what the column is mapped to: always
\* an empty and a blank cell, a padded cell the field accepts and, where the
\* field can reject one, a cell it rejects
CellsFor(m) ==
    IF m.fieldName = <<>> THEN {<<>>, <<"1">>}
    ELSE {<<>>, <<" ">>} \cup
         (CASE m.customUnmarshaler -> {<<" ", "1", " ">>, <<"a">>}
            [] m.fieldType = "String" -> {<<" ", "a", " ">>}
            [] m.fieldType \in {"Int", "Bool"} -> {<<" ", "1", " ">>, <<"a">>}
            [] m.fieldType = "Slice" /\ m.sliceType = "Int" ->
                 {<<" ", "1", ",", "2", " ">>, <<"1", ",", "a">>}
            [] OTHER -> {<<" ", "a", ",", "b", " ">>})

RECURSIVE rowsFrom(_, _)
rowsFrom(mappings, i) ==
    IF i > Len(mappings) THEN {<<>>}
    ELSE {<<c>> \o rest : c \in CellsFor(mappings[i]), rest \in rowsFrom(mappings, i + 1)}

\* the data rows tried under a Decoder's mappings: every row of one such cell
\* per column, and one row with a cell too many
RowsFor(mappings) ==
    rowsFrom(mappings, 1) \cup {[i \in 1..(Len(mappings) + 1) |-> <<"1">>]}

(***************************************************************************)
(* record types and inputs of the Encoder                                  *)
(***************************************************************************)

\* struct { StrField string `csv:"s"`; IgnoredField string; IntField int `csv:"n"` }
TEncPlain == Struct(<<FieldDecl(<<"S">>, Tag(<<"s">>, FALSE), "string"),
                      FieldDecl(<<"I">>, <<>>, "string"),
                      FieldDecl(<<"N">>, Tag(<<"n">>, FALSE), "int")>>)

\* struct { B bool `csv:"b"`; L []string `csv:"l"`; Xs []int `csv:"xs"` }
TEncLists == Struct(<<FieldDecl(<<"B">>, Tag(<<"b">>, FALSE), "bool"),
                      FieldDecl(<<"L">>, Tag(<<"l">>, FALSE), "[]string"),
                      FieldDecl(<<"X", "s">>, Tag(<<"x", "s">>, FALSE), "[]int")>>)

\* struct { StrField string `csv:"s"`; TimeField *time.Time `csv:"t"` }
TEncTime == Struct(<<FieldDecl(<<"S">>, Tag(<<"s">>, FALSE), "string"),
                     FieldDecl(<<"T">>, Tag(<<"t">>, FALSE), "*Time")>>)

\* struct { CustomField B `csv:"c"` }: B has no MarshalText
TNoMarshal == Struct(<<FieldDecl(<<"C">>, Tag(<<"c">>, FALSE), "B")>>)

EncoderTypes == {TEncPlain, TEncLists, TEncTime, TNoMarshal, TDup}

\* struct { S string `csv:"s"`; N int `csv:"n"` }
TRTText == Struct(<<FieldDecl(<<"S">>, Tag(<<"s">>, FALSE), "string"),
                    FieldDecl(<<"N">>, Tag(<<"n">>, FALSE), "int")>>)

\* struct { B bool `csv:"b"`; Xs []int `csv:"xs"` }
TRTInts == Struct(<<FieldDecl(<<"B">>, Tag(<<"b">>, FALSE), "bool"),
                    FieldDecl(<<"X", "s">>, Tag(<<"x", "s">>, FALSE), "[]int")>>)

\* struct { N int `csv:"n"`; L []string `csv:"l"` }
TRTList == Struct(<<FieldDecl(<<"N">>, Tag(<<"n">>, FALSE), "int"),
                    FieldDecl(<<"L">>, Tag(<<"l">>, FALSE), "[]string")>>)

\* struct { S string `csv:"s,required"`; L []string `csv:"l,required"` }
TRTRequired == Struct(<<FieldDecl(<<"S">>, Tag(<<"s">>, TRUE), "string"),
                        FieldDecl(<<"L">>, Tag(<<"l">>, TRUE), "[]string")>>)

\* the record types taken round the Encoder and the Decoder: fields of the
\* built-in kinds only, every field tagged
RoundTripTypes == {TRTText, TRTInts, TRTList, TRTRequired, TCase}

\* the records handed to Write, by record type
SourceRecords(t) ==
    CASE t = TEncPlain -> {<< <<"a">>, <<"i">>, 7 >>, << <<" ", "b">>, <<>>, -3 >>}
      [] t = TEncLists -> {<< TRUE, Slice(<< <<"a">>, <<"b">> >>), Slice(<<1, 20>>) >>,
                           << FALSE, NilSlice, Slice(<<>>) >>}
      [] t = TEncTime  -> {<< <<"a">>, Custom(<<"1">>) >>, << <<"b">>, BadTime >>}
      [] t = TRTText   -> {<<s, n>> : s \in {<<>>, <<"a">>, <<" ", "a">>}, n \in {0, -12}}
      [] t = TRTInts   -> {<<b, x>> : b \in BOOLEAN,
                                     x \in {NilSlice, Slice(<<>>), Slice(<<1, -20>>)}}
      [] t = TRTList   -> {<<7, l>> : l \in {NilSlice, Slice(<<>>), Slice(<< <<"a">>, <<"b">> >>),
                                             Slice(<< <<>> >>), Slice(<< <<"a", ",", "b">> >>),
                                             Slice(<< <<"a", " ">> >>)}}
      [] t = TRTRequired -> {<<s, l>> : s \in {<<>>, <<"a">>},
                                       l \in {NilSlice, Slice(<< <<"a">> >>),
                                              Slice(<< <<>>, <<>> >>)}}
      [] t = TCase     -> {<< <<"a">>, 1 >>}
      [] OTHER         -> {ZeroRecord(t)}

(***************************************************************************)
(* bounds                                                                  *)
(***************************************************************************)

\* the most data rows an input holds after its header
MaxRows == 2

\* the most calls of Read made after the input is exhausted
MaxEOF == 2

\* the threads of control that call Write on one Encoder
NWriters == 2

\* the most calls of Write made on one Encoder
MaxWrites == 2

(***************************************************************************)
(* state                                                                   *)
(***************************************************************************)

VARIABLES
    schema,          \* the record type handed to NewDecoder
    hasHeader,       \* the input holds at least one record
    headers,         \* the first record of the input
    nRows,           \* the number of data records that follow it
    fieldsPerRecord, \* csv.Reader.FieldsPerRecord as the caller configured it
    pos,             \* the records the reader has returned so far
    phase,           \* "constructing", "ready" or "failed"
    d,               \* the Decoder
    cerr,            \* the error NewDecoder returned
    dest,            \* the destination record after the last Read
    before,          \* the destination record as handed to the last Read
    lastRow,         \* the record the reader returned to the last Read
    lastErr,         \* what the last Read returned
    calls,           \* the texts the last Read handed to UnmarshalText
    nReads,          \* calls of Read that got past the destination checks
    nEOF,            \* calls of Read that returned io.EOF
    nFailed,         \* calls of Read that consumed a row and returned an error
    lastOp,          \* the last operation performed
    matched,         \* what MatchedHeaders returned, when it was the last operation
    etype,           \* the record type handed to NewEncoder
    headerWriteOK,   \* the row writer accepts the header row
    ephase,          \* "constructing", "ready" or "failed"
    enc,             \* the Encoder
    ecerr,           \* the error NewEncoder returned
    out,             \* the tokens flushed to the output, in order
    wbuf,            \* the tokens in the row writer's buffer
    mutex,           \* per mutex, the thread holding it, 0 for none
    w,               \* per thread, its call of Write in progress
    log,             \* the calls of Write, in call order
    overlapped       \* some call of Write began while another was in progress

inputVars == <<schema, hasHeader, headers, nRows, fieldsPerRecord>>

decVars == <<pos, phase, d, cerr, dest, before, lastRow, lastErr, calls, nReads, nEOF,
             nFailed, lastOp, matched>>

encVars == <<etype, headerWriteOK, ephase, enc, ecerr, out, wbuf, mutex, w, log, overlapped>>

vars == <<inputVars, decVars, encVars>>

Writers == 1..NWriters

IdleWriter == [pc |-> "idle", e |-> ZeroEncoder, rowValues |-> <<>>, ci |-> 0, werr |-> NilErr,
               call |-> 0]

\* the Encoder side at rest: the state of a program that only decodes
EncIdle ==
    /\ etype = TEncPlain
    /\ headerWriteOK = TRUE
    /\ ephase = "unused"
    /\ enc = ZeroEncoder
    /\ ecerr = NilErr
    /\ out = <<>>
    /\ wbuf = <<>>
    /\ mutex = [m \in 1..(NWriters + 1) |-> 0]
    /\ w = [p \in Writers |-> IdleWriter]
    /\ log = <<>>
    /\ overlapped = FALSE

\* the Decoder side at rest: the state of a program that only encodes
DecIdle ==
    /\ schema = TScenario
    /\ hasHeader = FALSE
    /\ headers = <<>>
    /\ nRows = 0
    /\ fieldsPerRecord = 0
    /\ pos = 0
    /\ phase = "unused"
    /\ d = ZeroDecoder
    /\ cerr = NilErr
    /\ dest = ZeroRecord(TScenario)
    /\ before = ZeroRecord(TScenario)
    /\ lastRow = <<>>
    /\ lastErr = NilErr
    /\ calls = <<>>
    /\ nReads = 0
    /\ nEOF = 0
    /\ nFailed = 0
    /\ lastOp = "none"
    /\ matched = <<>>

DecInit ==
    /\ schema \in DecoderTypes
    /\ hasHeader \in BOOLEAN
    /\ headers \in IF hasHeader THEN Headers(schema) ELSE {<<>>}
    /\ nRows \in IF hasHeader THEN 0..MaxRows ELSE {0}
    /\ fieldsPerRecord \in IF schema = TScenario THEN {0, -1} ELSE {0}
    /\ pos = 0
    /\ phase = "constructing"
    /\ d = ZeroDecoder
    /\ cerr = NilErr
    /\ dest = ZeroRecord(schema)
    /\ before = ZeroRecord(schema)
    /\ lastRow = <<>>
    /\ lastErr = NilErr
    /\ calls = <<>>
    /\ nReads = 0
    /\ nEOF = 0
    /\ nFailed = 0
    /\ lastOp = "none"
    /\ matched = <<>>

\* d, err := NewDecoder(r, schema)
DoNewDecoder ==
    /\ phase = "constructing"
    /\ \E r \in {NewDecoderFromCSVReader(schema, hasHeader, headers)} :
           /\ d' = r.d
           /\ cerr' = r.err
           /\ pos' = r.consumed
           /\ phase' = IF r.err = NilErr THEN "ready" ELSE "failed"
    /\ lastOp' = "NewDecoder"
    /\ UNCHANGED <<inputVars, encVars, dest, before, lastRow, lastErr, calls, nReads, nEOF,
                   nFailed, matched>>

\* the reader has returned the header and every data record
AtEnd == pos >= 1 + nRows

\* the destination records a caller hands to Read: a fresh one or the one of
\* the previous Read
Destinations == {ZeroRecord(schema), dest}

\* as ReadWith, but a row that fails to decode is not counted as consumed
ReadWith_rowKeptOnError(destKind, val, rec) ==
    \E r \in {Read(d, schema, destKind, val, AtEnd, rec, fieldsPerRecord)} :
        /\ dest' = r.dest
        /\ before' = val
        /\ lastErr' = r.err
        /\ calls' = r.calls
        /\ pos' = IF r.err = NilErr THEN pos + r.consumed ELSE pos
        /\ lastRow' = IF r.consumed = 1 THEN rec ELSE <<>>
        /\ nReads' = IF destKind = "ptr" THEN nReads + 1 ELSE nReads
        /\ nEOF' = IF r.err = EOF THEN nEOF + 1 ELSE nEOF
        /\ nFailed' = IF r.consumed = 1 /\ r.err # NilErr THEN nFailed + 1 ELSE nFailed
        /\ lastOp' = "Read"
        /\ matched' = <<>>
        /\ UNCHANGED <<inputVars, encVars, phase, d, cerr>>

\* err := d.Read(&val) with the reader about to return rec
ReadWith(destKind, val, rec) ==
    \E r \in {Read(d, schema, destKind, val, AtEnd, rec, fieldsPerRecord)} :
        /\ dest' = r.dest
        /\ before' = val
        /\ lastErr' = r.err
        /\ calls' = r.calls
        /\ pos' = pos + r.consumed
        /\ lastRow' = IF r.consumed = 1 THEN rec ELSE <<>>
        /\ nReads' = IF destKind = "ptr" THEN nReads + 1 ELSE nReads
        /\ nEOF' = IF r.err = EOF THEN nEOF + 1 ELSE nEOF
        /\ nFailed' = IF r.consumed = 1 /\ r.err # NilErr THEN nFailed + 1 ELSE nFailed
        /\ lastOp' = "Read"
        /\ matched' = <<>>
        /\ UNCHANGED <<inputVars, encVars, phase, d, cerr>>

\* a Read that reaches the reader while data records remain
DoReadRow ==
    /\ phase = "ready"
    /\ ~AtEnd
    /\ \E val \in Destinations, rec \in RowsFor(d.mappings) : ReadWith("ptr", val, rec)

\* a Read that reaches the reader at the end of the input
DoReadAtEnd ==
    /\ phase = "ready"
    /\ AtEnd
    /\ nEOF < MaxEOF
    /\ \E val \in Destinations : ReadWith("ptr", val, <<>>)

\* a Read with a destination that is nil, not a pointer, or an interface
DoReadBadDest ==
    /\ phase = "ready"
    /\ \E k \in DestKinds \ {"ptr"} : ReadWith(k, dest, <<>>)

\* hs := d.MatchedHeaders()
DoMatchedHeaders ==
    /\ phase = "ready"
    /\ matched' = MatchedHeaders(d)
    /\ lastOp' = "MatchedHeaders"
    /\ UNCHANGED <<inputVars, encVars, pos, phase, d, cerr, dest, before, lastRow, lastErr,
                   calls, nReads, nEOF, nFailed>>

Init == DecInit /\ EncIdle

Next ==
    \/ DoNewDecoder
    \/ DoReadRow
    \/ DoReadAtEnd
    \/ DoReadBadDest
    \/ DoMatchedHeaders

\* a program that decodes one input with one Decoder
Spec == Init /\ [][Next]_vars

(***************************************************************************)
(* the Encoder shared by NWriters threads                                  *)
(***************************************************************************)

EncInit ==
    /\ etype \in EncoderTypes
    /\ headerWriteOK \in BOOLEAN
    /\ ephase = "constructing"
    /\ enc = ZeroEncoder
    /\ ecerr = NilErr
    /\ out = <<>>
    /\ wbuf = <<>>
    /\ mutex = [m \in 1..(NWriters + 1) |-> 0]
    /\ w = [p \in Writers |-> IdleWriter]
    /\ log = <<>>
    /\ overlapped = FALSE

\* enc, err := NewEncoder(w, etype): the header row is written and flushed
DoNewEncoder ==
    /\ ephase = "constructing"
    /\ \E r \in {NewEncoderFromCSVWriter(etype, headerWriteOK)} :
           /\ enc' = r.e
           /\ ecerr' = r.err
           /\ out' = out \o r.flushed
           /\ wbuf' = wbuf \o r.buffered
           /\ ephase' = IF r.err = NilErr THEN "ready" ELSE "failed"
    /\ UNCHANGED <<inputVars, decVars, etype, headerWriteOK, mutex, w, log, overlapped>>

InProgress(p) == w[p].pc \in {"encoded", "locked", "written", "flushed"}

\* no call of Write is in progress
Quiescent == \A p \in Writers : w[p].pc \in {"idle", "panicked"}

\* as WriteCall, with the mutex taken before the row is rendered and still
\* held when the call returns an error
WriteCall_lockHeldOnError(p) ==
    /\ ephase = "ready"
    /\ w[p].pc = "idle"
    /\ Len(log) < MaxWrites
    /\ \E srcKind \in SrcKinds, src \in SourceRecords(etype) :
         /\ srcKind = "nil" => src = CHOOSE r \in SourceRecords(etype) : TRUE
         /\ \E e \in {receiverCopy(enc, p)} : \E r \in {encodeRow(e, etype, srcKind, src)} :
            LET st == IF r.err = NilErr THEN "running"
                      ELSE IF IsPanic(r.err) THEN "panic" ELSE "err"
            IN  /\ w' = [w EXCEPT ![p] =
                           [pc |-> IF r.err = NilErr THEN "encoded"
                                   ELSE IF IsPanic(r.err) THEN "panicked" ELSE "idle",
                            e |-> e, rowValues |-> r.rowValues, ci |-> 0, werr |-> r.err,
                            call |-> Len(log) + 1]]
                /\ log' = Append(log, [p |-> p, src |-> src, row |-> r.rowValues, status |-> st,
                                        err |-> r.err])
                /\ mutex' = IF st = "err" THEN [mutex EXCEPT ![e.mu] = p] ELSE mutex
    /\ overlapped' = (overlapped \/ \E q \in Writers \ {p} : InProgress(q))
    /\ UNCHANGED <<inputVars, decVars, etype, headerWriteOK, ephase, enc, ecerr, out, wbuf>>

\* thread p calls enc.Write(src): the copy of the receiver, the checks of src
\* and the rendering of the row, up to e.mu.Lock()
WriteCall(p) ==
    /\ ephase = "ready"
    /\ w[p].pc = "idle"
    /\ Len(log) < MaxWrites
    /\ \E srcKind \in SrcKinds, src \in SourceRecords(etype) :
         /\ srcKind = "nil" => src = CHOOSE r \in SourceRecords(etype) : TRUE
         /\ \E e \in {receiverCopy(enc, p)} : \E r \in {encodeRow(e, etype, srcKind, src)} :
            LET st == IF r.err = NilErr THEN "running"
                      ELSE IF IsPanic(r.err) THEN "panic" ELSE "err"
            IN  /\ w' = [w EXCEPT ![p] =
                           [pc |-> IF r.err = NilErr THEN "encoded"
                                   ELSE IF IsPanic(r.err) THEN "panicked" ELSE "idle",
                            e |-> e, rowValues |-> r.rowValues, ci |-> 0, werr |-> r.err,
                            call |-> Len(log) + 1]]
                /\ log' = Append(log, [p |-> p, src |-> src, row |-> r.rowValues, status |-> st,
                                        err |-> r.err])
    /\ overlapped' = (overlapped \/ \E q \in Writers \ {p} : InProgress(q))
    /\ UNCHANGED <<inputVars, decVars, etype, headerWriteOK, ephase, enc, ecerr, out, wbuf, mutex>>

\* as Lock, going on without the mutex
Lock_notAcquired(p) ==
    /\ w[p].pc = "encoded"
    /\ w' = [w EXCEPT ![p].pc = "locked"]
    /\ UNCHANGED <<inputVars, decVars, etype, headerWriteOK, ephase, enc, ecerr, out, wbuf, mutex,
                   log, overlapped>>

\* e.mu.Lock()
Lock(p) ==
    /\ w[p].pc = "encoded"
    /\ mutex[w[p].e.mu] = 0
    /\ mutex' = [mutex EXCEPT ![w[p].e.mu] = p]
    /\ w' = [w EXCEPT ![p].pc = "locked"]
    /\ UNCHANGED <<inputVars, decVars, etype, headerWriteOK, ephase, enc, ecerr, out, wbuf, log, overlapped>>

\* e.w.Write(rowValues) puts the next cell into the buffer, and the line end after the last
WriteCell(p) ==
    /\ w[p].pc = "locked"
    /\ LET i    == w[p].ci + 1
           last == i = Len(w[p].rowValues)
       IN  /\ wbuf' = wbuf \o <<CellToken(w[p].rowValues[i])>> \o (IF last THEN <<LineEnd>> ELSE <<>>)
           /\ w' = [w EXCEPT ![p].ci = i, ![p].pc = IF last THEN "written" ELSE "locked"]
    /\ UNCHANGED <<inputVars, decVars, etype, headerWriteOK, ephase, enc, ecerr, out, mutex, log, overlapped>>

\* e.w.Write(rowValues) returns an error and puts nothing into the buffer
WriteRowFail(p) ==
    /\ w[p].pc = "locked"
    /\ w[p].ci = 0
    /\ w' = [w EXCEPT ![p].pc = "written",
                      ![p].werr = MkErr("row writer failed", <<>>, <<>>, 0, 0)]
    /\ UNCHANGED <<inputVars, decVars, etype, headerWriteOK, ephase, enc, ecerr, out, wbuf, mutex, log, overlapped>>

\* the deferred e.w.Flush()
Flush(p) ==
    /\ w[p].pc = "written"
    /\ out' = out \o wbuf
    /\ wbuf' = <<>>
    /\ w' = [w EXCEPT ![p].pc = "flushed"]
    /\ UNCHANGED <<inputVars, decVars, etype, headerWriteOK, ephase, enc, ecerr, mutex, log, overlapped>>

\* as Unlock, with the mutex released only when the row writer accepted the row
Unlock_keptOnError(p) ==
    /\ w[p].pc = "flushed"
    /\ mutex' = IF w[p].werr = NilErr THEN [mutex EXCEPT ![w[p].e.mu] = 0] ELSE mutex
    /\ log' = [log EXCEPT ![w[p].call].status = IF w[p].werr = NilErr THEN "ok" ELSE "err",
                          ![w[p].call].err = w[p].werr]
    /\ w' = [w EXCEPT ![p].pc = "idle"]
    /\ UNCHANGED <<inputVars, decVars, etype, headerWriteOK, ephase, enc, ecerr, out, wbuf, overlapped>>

\* the deferred e.mu.Unlock(), and the return of Write
Unlock(p) ==
    /\ w[p].pc = "flushed"
    /\ mutex' = [mutex EXCEPT ![w[p].e.mu] = 0]
    /\ log' = [log EXCEPT ![w[p].call].status = IF w[p].werr = NilErr THEN "ok" ELSE "err",
                          ![w[p].call].err = w[p].werr]
    /\ w' = [w EXCEPT ![p].pc = "idle"]
    /\ UNCHANGED <<inputVars, decVars, etype, headerWriteOK, ephase, enc, ecerr, out, wbuf, overlapped>>

InitEnc == EncInit /\ DecIdle

NextEnc ==
    \/ DoNewEncoder
    \/ \E p \in Writers : WriteCall(p)
    \/ \E p \in Writers : Lock(p)
    \/ \E p \in Writers : WriteCell(p)
    \/ \E p \in Writers : WriteRowFail(p)
    \/ \E p \in Writers : Flush(p)
    \/ \E p \in Writers : Unlock(p)

\* a program that encodes with one Encoder from NWriters threads
SpecEnc == InitEnc /\ [][NextEnc]_vars

\* the same under a scheduler that lets every thread inside Write go on: a
\* thread waiting for a mutex that stays free gets it, a thread holding it
\* takes its next step
SpecEncFair ==
    /\ SpecEnc
    /\ \A p \in Writers :
         /\ WF_vars(Lock(p))
         /\ WF_vars(WriteCell(p))
         /\ WF_vars(Flush(p))
         /\ WF_vars(Unlock(p))

(***************************************************************************)
(* records written by an Encoder and read back by a Decoder                *)
(***************************************************************************)

InitRT ==
    /\ etype \in RoundTripTypes
    /\ headerWriteOK = TRUE
    /\ ephase = "constructing"
    /\ enc = ZeroEncoder
    /\ ecerr = NilErr
    /\ out = <<>>
    /\ wbuf = <<>>
    /\ mutex = [m \in 1..(NWriters + 1) |-> 0]
    /\ w = [p \in Writers |-> IdleWriter]
    /\ log = <<>>
    /\ overlapped = FALSE
    /\ schema = etype
    /\ hasHeader = FALSE
    /\ headers = <<>>
    /\ nRows = 0
    /\ fieldsPerRecord = 0
    /\ pos = 0
    /\ phase = "unused"
    /\ d = ZeroDecoder
    /\ cerr = NilErr
    /\ dest = ZeroRecord(etype)
    /\ before = ZeroRecord(etype)
    /\ lastRow = <<>>
    /\ lastErr = NilErr
    /\ calls = <<>>
    /\ nReads = 0
    /\ nEOF = 0
    /\ nFailed = 0
    /\ lastOp = "none"
    /\ matched = <<>>

\* a call of enc.Write made before the output is read back
WriteRecord == phase = "unused" /\ WriteCall(1)

\* d, err := NewDecoder(r, schema) with r reading what the Encoder has put out
NewDecoderOnOutput ==
    /\ ephase = "ready"
    /\ Quiescent
    /\ phase = "unused"
    /\ \E recs \in {Records(out)} :
         /\ hasHeader' = (recs # <<>>)
         /\ headers' = IF recs # <<>> THEN recs[1] ELSE <<>>
         /\ nRows' = IF recs # <<>> THEN Len(recs) - 1 ELSE 0
         /\ \E r \in {NewDecoderFromCSVReader(schema, recs # <<>>,
                                              IF recs # <<>> THEN recs[1] ELSE <<>>)} :
                /\ d' = r.d
                /\ cerr' = r.err
                /\ pos' = r.consumed
                /\ phase' = IF r.err = NilErr THEN "ready" ELSE "failed"
    /\ lastOp' = "NewDecoder"
    /\ UNCHANGED <<schema, fieldsPerRecord, encVars, dest, before, lastRow, lastErr, calls,
                   nReads, nEOF, nFailed, matched>>

\* err := d.Read(&val) into a fresh record, the reader at the next row of the output
ReadBack ==
    /\ phase = "ready"
    /\ ~AtEnd
    /\ ReadWith("ptr", ZeroRecord(schema), Records(out)[pos + 1])

NextRT ==
    \/ DoNewEncoder
    \/ WriteRecord
    \/ Lock(1)
    \/ WriteCell(1)
    \/ Flush(1)
    \/ Unlock(1)
    \/ NewDecoderOnOutput
    \/ ReadBack

\* a program that writes records with an Encoder and reads them back with a Decoder
SpecRT == InitRT /\ [][NextRT]_vars

(***************************************************************************)
(* one record type handed to NewEncoder and to NewDecoder                  *)
(***************************************************************************)

\* field declarations a record type is made of: the field kinds the package
\* supports, the types of the tests with and without text codecs, fields
\* without a tag, and the tags and names structureFromStruct rejects
FieldPool ==
    {FieldDecl(<<"S">>, Tag(<<"s">>, FALSE), "string"),          \* S string `csv:"s"`
     FieldDecl(<<"N">>, Tag(<<"n">>, TRUE), "int"),              \* N int `csv:"n,required"`
     FieldDecl(<<"B">>, Tag(<<"b">>, FALSE), "bool"),            \* B bool `csv:"b"`
     FieldDecl(<<"X">>, Tag(<<"x", "s">>, FALSE), "[]int"),      \* X []int `csv:"xs"`
     FieldDecl(<<"T">>, Tag(<<"t">>, FALSE), "*Time"),           \* T *time.Time `csv:"t"`
     FieldDecl(<<"C">>, Tag(<<"c">>, TRUE), "CustomTime"),       \* C CustomTime `csv:"c,required"`
     FieldDecl(<<"M">>, Tag(<<"m">>, FALSE), "M"),               \* M M `csv:"m"`
     FieldDecl(<<"A">>, Tag(<<"a">>, FALSE), "A"),               \* A A `csv:"a"`
     FieldDecl(<<"O">>, Tag(<<"o">>, FALSE), "B"),               \* O B `csv:"o"`
     FieldDecl(<<"I">>, <<>>, "string"),                         \* I string
     FieldDecl(<<"p">>, <<>>, "int"),                            \* p int
     FieldDecl(<<"E">>, <<",">> \o Required, "int"),             \* E int `csv:",required"`
     FieldDecl(<<"G">>, <<",", "x">>, "int"),                    \* G int `csv:",x"`
     FieldDecl(<<"H">>, <<",", "x", ",", "y">>, "int"),          \* H int `csv:",x,y"`
     FieldDecl(<<"Y">>, Tag(<<"s">>, FALSE), "int"),             \* Y int `csv:"s"`
     FieldDecl(<<"u">>, Tag(<<"u">>, FALSE), "int"),             \* u int `csv:"u"`
     FieldDecl(<<"W">>, <<"w", ",", "x">>, "int"),               \* W int `csv:"w,x"`
     FieldDecl(<<"V">>, <<"v", ",", "x", ",", "y">>, "int"),     \* V int `csv:"v,x,y"`
     FieldDecl(<<"Z">>, Tag(<<"z">>, FALSE), "[]bool")}          \* Z []bool `csv:"z"`

\* the declarations put around a field without a tag
OuterFields == {f \in FieldPool : f.name \in {<<"S">>, <<"N">>, <<"Y">>, <<"u">>, <<"T">>}}

\* the record types tried: every one of one or two distinct fields of the
\* pool, and those of three fields with a private untagged field in the middle
RecordTypes ==
    {Struct(<<f>>) : f \in FieldPool}
      \cup {Struct(<<q[1], q[2]>>) :
                q \in {r \in FieldPool \X FieldPool : r[1].name # r[2].name}}
      \cup {Struct(<<q[1], FieldDecl(<<"p">>, <<>>, "int"), q[2]>>) :
                q \in {r \in OuterFields \X OuterFields : r[1].name # r[2].name}}

\* the column name of a field's tag
ColumnName(f) == Split(f.tag, ",")[1]

\* the column names of a record type in declaration order: the header row an
\* Encoder for the type writes
RECURSIVE columnsFrom(_, _)
columnsFrom(fields, i) ==
    IF i > Len(fields) THEN <<>>
    ELSE (IF ColumnName(fields[i]) = <<>> THEN <<>> ELSE <<ColumnName(fields[i])>>)
           \o columnsFrom(fields, i + 1)

ColumnNames(t) == columnsFrom(t.fields, 1)

InitTypes ==
    /\ schema \in RecordTypes
    /\ etype = schema
    /\ headerWriteOK = TRUE
    /\ ephase = "constructing"
    /\ enc = ZeroEncoder
    /\ ecerr = NilErr
    /\ out = <<>>
    /\ wbuf = <<>>
    /\ mutex = [m \in 1..(NWriters + 1) |-> 0]
    /\ w = [p \in Writers |-> IdleWriter]
    /\ log = <<>>
    /\ overlapped = FALSE
    /\ hasHeader = TRUE
    /\ headers \in {ColumnNames(schema), ColumnNames(schema) \o << <<"x", "x">> >>}
    /\ nRows = 1
    /\ fieldsPerRecord = 0
    /\ pos = 0
    /\ phase = "unused"
    /\ d = ZeroDecoder
    /\ cerr = NilErr
    /\ dest = ZeroRecord(schema)
    /\ before = ZeroRecord(schema)
    /\ lastRow = <<>>
    /\ lastErr = NilErr
    /\ calls = <<>>
    /\ nReads = 0
    /\ nEOF = 0
    /\ nFailed = 0
    /\ lastOp = "none"
    /\ matched = <<>>

\* the one call of enc.Write the program makes, before it decodes
WriteOnce == phase = "unused" /\ log = <<>> /\ WriteCall(1)

\* d, err := NewDecoder(r, schema), once the program is done with the Encoder
NewDecoderNext ==
    /\ ephase # "constructing"
    /\ Quiescent
    /\ phase = "unused"
    /\ \E r \in {NewDecoderFromCSVReader(schema, hasHeader, headers)} :
           /\ d' = r.d
           /\ cerr' = r.err
           /\ pos' = r.consumed
           /\ phase' = IF r.err = NilErr THEN "ready" ELSE "failed"
    /\ lastOp' = "NewDecoder"
    /\ UNCHANGED <<inputVars, encVars, dest, before, lastRow, lastErr, calls, nReads, nEOF,
                   nFailed, matched>>

NextTypes ==
    \/ DoNewEncoder
    \/ WriteOnce
    \/ Lock(1)
    \/ WriteCell(1)
    \/ Flush(1)
    \/ Unlock(1)
    \/ NewDecoderNext
    \/ DoReadRow
    \/ DoReadAtEnd

\* a program that hands one record type to NewEncoder and to NewDecoder,
\* writes a record and reads a row
SpecTypes == InitTypes /\ [][NextTypes]_vars

(***************************************************************************)
(* a Decoder reading into a record that already holds values               *)
(***************************************************************************)

\* a value of a Go type other than its zero value
SampleValue(typ) ==
    CASE KindOf(typ) = "String" -> <<"z">>
      [] KindOf(typ) = "Int" -> 9
      [] KindOf(typ) = "Bool" -> TRUE
      [] typ = "[]string" -> Slice(<< <<"z">> >>)
      [] KindOf(typ) = "Slice" -> Slice(<<9>>)
      [] OTHER -> Custom(<<"9">>)

\* a record of such values
SampleRecord(t) == [i \in 1..Len(t.fields) |-> SampleValue(t.fields[i].typ)]

InitFilled ==
    /\ schema \in DecoderTypes
    /\ hasHeader = TRUE
    /\ headers \in Headers(schema)
    /\ nRows \in 0..MaxRows
    /\ fieldsPerRecord \in IF schema = TScenario THEN {0, -1} ELSE {0}
    /\ pos = 0
    /\ phase = "constructing"
    /\ d = ZeroDecoder
    /\ cerr = NilErr
    /\ dest = SampleRecord(schema)
    /\ before = SampleRecord(schema)
    /\ lastRow = <<>>
    /\ lastErr = NilErr
    /\ calls = <<>>
    /\ nReads = 0
    /\ nEOF = 0
    /\ nFailed = 0
    /\ lastOp = "none"
    /\ matched = <<>>
    /\ etype = TEncPlain
    /\ headerWriteOK = TRUE
    /\ ephase = "unused"
    /\ enc = ZeroEncoder
    /\ ecerr = NilErr
    /\ out = <<>>
    /\ wbuf = <<>>
    /\ mutex = [m \in 1..(NWriters + 1) |-> 0]
    /\ w = [p \in Writers |-> IdleWriter]
    /\ log = <<>>
    /\ overlapped = FALSE

\* a Read into the record the program holds: the one it filled itself at
\* first, the one the previous Read left afterwards
DoReadInto ==
    /\ phase = "ready"
    /\ ~AtEnd
    /\ \E rec \in RowsFor(d.mappings) : ReadWith("ptr", dest, rec)

\* the same at the end of the input
DoReadIntoAtEnd ==
    /\ phase = "ready"
    /\ AtEnd
    /\ nEOF < MaxEOF
    /\ ReadWith("ptr", dest, <<>>)

NextFilled ==
    \/ DoNewDecoder
    \/ DoReadInto
    \/ DoReadIntoAtEnd
    \/ DoReadBadDest

\* a program that decodes every row into one record that held values before
SpecFilled == InitFilled /\ [][NextFilled]_vars

(***************************************************************************)
(* what a data cell means for the field its column is mapped to            *)
(***************************************************************************)

Mapped(i) == d.mappings[i].fieldName # <<>>

FieldType(m) == schema.fields[m.fieldIndex + 1].typ

BadDestination(e) ==
    e.kind \in {"destination cannot be nil", "destination must be pointer",
                "destination cannot be an interface"}

\* the last operation was a Read that got past the destination checks
ValidRead == phase = "ready" /\ lastOp = "Read" /\ ~BadDestination(lastErr)

\* the trimmed cell is one the field m accepts
CellAccepted(m, cell) ==
    LET text == TrimSpace(cell)
    IN  IF text = <<>> THEN ~m.required
        ELSE IF m.customUnmarshaler THEN FieldType(m) \in {"*Time", "CustomTime"} => ParseTimeOK(text)
        ELSE CASE m.fieldType = "Int" -> Atoi(text).ok
               [] m.fieldType = "Bool" -> ParseBool(text).ok
               [] m.fieldType = "Slice" /\ m.sliceType = "Int" ->
                    \A k \in DOMAIN Split(text, ",") : Atoi(Split(text, ",")[k]).ok
               [] OTHER -> TRUE

\* the row has one cell per header column and every mapped cell is accepted
RowDecodes(row) ==
    /\ Len(row) = Len(headers)
    /\ \A i \in DOMAIN row : Mapped(i) => CellAccepted(d.mappings[i], row[i])

\* the value a non-empty accepted cell stands for
CellMeaning(m, cell) ==
    LET text  == TrimSpace(cell)
        parts == Split(text, ",")
    IN  IF m.customUnmarshaler
        THEN (IF FieldType(m) = "M" THEN <<"f", "o", "o">> \o text
              ELSE IF FieldType(m) = "B" THEN Custom(<<>>) ELSE Custom(text))
        ELSE CASE m.fieldType = "String" -> text
               [] m.fieldType = "Int" -> Atoi(text).val
               [] m.fieldType = "Bool" -> ParseBool(text).val
               [] m.fieldType = "Slice" /\ m.sliceType = "Int" ->
                    Slice([k \in DOMAIN parts |-> Atoi(parts[k]).val])
               [] OTHER -> Slice(parts)

\* every field mapped to a non-empty cell of the row holds the cell's value
FilledFrom(row, record) ==
    \A i \in DOMAIN row :
        (Mapped(i) /\ TrimSpace(row[i]) # <<>>)
            => record[d.mappings[i].fieldIndex + 1] = CellMeaning(d.mappings[i], row[i])

(***************************************************************************)
(* C1                                                                      *)
(***************************************************************************)

\* C1: on an input of nRows data rows, the k-th Read (k <= nRows) consumes
\* exactly the k-th data row and, when that row decodes, returns nil with the
\* destination filled from it; every Read after the nRows-th returns io.EOF
\* and consumes nothing.
C1_RowsInOrder ==
    ValidRead =>
        /\ nReads <= nRows =>
             /\ pos = nReads + 1
             /\ RowDecodes(lastRow) => (lastErr = NilErr /\ FilledFrom(lastRow, dest))
        /\ nReads > nRows => (lastErr = EOF /\ pos = nRows + 1 /\ dest = before)

\* the second Read of a two-row input succeeded and stored a value
C1_Witness ==
    /\ ValidRead /\ nRows = 2 /\ nReads = 2 /\ lastErr = NilErr
    /\ \E i \in DOMAIN lastRow : Mapped(i) /\ TrimSpace(lastRow[i]) # <<>>
    /\ dest # before


(***************************************************************************)
(* C2                                                                      *)
(***************************************************************************)

\* C2 as stated: Read returns io.EOF exactly once, on the call that follows
\* the one that consumed the last data row, and on no other call.
C2_ExactlyOnce ==
    /\ nEOF <= 1
    /\ ValidRead => (lastErr = EOF <=> nReads = nRows + 1)

\* C2 (amended): Read returns io.EOF on the call that follows the one that
\* consumed the last data row and on every later call; never while data rows
\* remain; and a Read that consumed a row never returns io.EOF, whatever the
\* row's content.
C2_EndOfStream ==
    /\ ValidRead =>
         /\ lastErr = EOF <=> nReads > nRows
         /\ lastErr = EOF => (lastRow = <<>> /\ pos = nRows + 1)
         /\ lastRow # <<>> => lastErr # EOF
    /\ phase = "ready" => nEOF = (IF nReads > nRows THEN nReads - nRows ELSE 0)

C2_Witness == ValidRead /\ nRows = 2 /\ nFailed >= 1 /\ nEOF = 2 /\ lastErr = EOF

(***************************************************************************)
(* C3                                                                      *)
(***************************************************************************)

\* the errors Read returns for the content or the shape of a row
RowContentError(e) ==
    e.kind \in {"failed to read CSV row", "expected columns", "required but no value found",
                "failed to coerce using custom marshaler", "failed to coerce into integer",
                "failed to coerce into boolean", "failed to coerce element into integer"}

\* C3: a Read that fails on the content of a row consumes exactly that row and
\* leaves the Decoder's mapping as it was; and the Read that follows a failed
\* one takes the next data row and returns what that row alone determines:
\* nil with the destination filled from it when it decodes, a row error when
\* it does not, io.EOF when no row is left.
C3_FailedReadConsumesOneRow ==
    [][ /\ (lastOp' = "Read" /\ RowContentError(lastErr'))
            => (pos' = pos + 1 /\ d' = d /\ lastRow' # <<>>)
        /\ (ValidRead /\ RowContentError(lastErr) /\ lastOp' = "Read"
              /\ ~BadDestination(lastErr'))
            => /\ pos = nReads + 1
               /\ IF nReads < nRows
                  THEN /\ pos' = pos + 1
                       /\ IF RowDecodes(lastRow)'
                          THEN lastErr' = NilErr /\ FilledFrom(lastRow, dest)'
                          ELSE RowContentError(lastErr') /\ lastErr' # EOF
                  ELSE lastErr' = EOF /\ pos' = pos
      ]_vars

C3_Witness ==
    /\ ValidRead /\ nReads = 2 /\ nFailed = 1 /\ lastErr = NilErr /\ pos = 3
    /\ \E i \in DOMAIN lastRow : Mapped(i) /\ TrimSpace(lastRow[i]) # <<>>

(***************************************************************************)
(* C4, C5, C6                                                              *)
(***************************************************************************)

\* the fields of the schema, in declaration order
Fields == structureFromStruct(schema).mappings

\* two names are equal after trimming surrounding whitespace and lowercasing both
SameName(a, b) == ToLower(TrimSpace(a)) = ToLower(TrimSpace(b))

\* NewDecoder got as far as reconciling the header row with the schema
Reconciled ==
    /\ phase \in {"ready", "failed"}
    /\ hasHeader
    /\ structureFromStruct(schema).err = NilErr
    /\ \A k \in DOMAIN Fields : Fields[k].fieldType = "Invalid" => Fields[k].customUnmarshaler

\* some required field's name is in no header cell, after normalisation
RequiredMissing ==
    \E k \in DOMAIN Fields :
        Fields[k].required /\ \A i \in DOMAIN headers : ~SameName(headers[i], Fields[k].fieldName)

\* two header cells are equal after normalisation
DuplicateHeader ==
    \E i, j \in DOMAIN headers : i < j /\ SameName(headers[i], headers[j])

\* C4 as stated: NewDecoder fails with 'required but not found' whenever a
\* required field's normalized name is in no header cell, and only then.
C4_WheneverMissing ==
    Reconciled => (RequiredMissing <=> cerr.kind = "required but not found")

\* C4 (amended): NewDecoder fails with 'required but not found', and returns
\* no usable Decoder, whenever a required field's normalized name is in no
\* header cell and no two header cells are equal after normalisation; it never
\* fails for that reason otherwise, in particular not when only non-required
\* fields are absent.  The error names the first such field.
C4_RequiredButNotFound ==
    Reconciled =>
        /\ (RequiredMissing /\ ~DuplicateHeader) <=> cerr.kind = "required but not found"
        /\ cerr.kind = "required but not found" =>
             /\ phase = "failed" /\ d = ZeroDecoder
             /\ \E k \in DOMAIN Fields :
                  /\ cerr.name = Fields[k].fieldName
                  /\ Fields[k].required
                  /\ \A i \in DOMAIN headers : ~SameName(headers[i], Fields[k].fieldName)
                  /\ \A j \in 1..(k - 1) :
                       Fields[j].required =>
                           \E i \in DOMAIN headers : SameName(headers[i], Fields[j].fieldName)

C4_Witness ==
    /\ Reconciled /\ cerr.kind = "required but not found"
    /\ \E i \in DOMAIN headers, k \in DOMAIN Fields :
         Fields[k].required /\ SameName(headers[i], Fields[k].fieldName)

UniqueName(k) ==
    \A j \in DOMAIN Fields : j # k => ~SameName(Fields[j].fieldName, Fields[k].fieldName)

C6_DuplicateHeader ==
    Reconciled =>
        /\ DuplicateHeader <=> cerr.kind = "saw header column twice"
        /\ cerr.kind = "saw header column twice" => (phase = "failed" /\ d = ZeroDecoder)

C6_Witness ==
    /\ Reconciled /\ cerr.kind = "saw header column twice"
    /\ Len(headers) = 2 /\ headers[1] # headers[2]

(***************************************************************************)
(* C10                                                                     *)
(***************************************************************************)

\* column i of the row is mapped to a required field and its cell is empty
\* after trimming
RequiredEmpty(row, i) ==
    Mapped(i) /\ d.mappings[i].required /\ TrimSpace(row[i]) = <<>>

HeaderRow == [k \in DOMAIN structureFromStruct(etype).mappings |->
                 structureFromStruct(etype).mappings[k].fieldName]

\* the rows of the calls of Write that returned nil, in call order
RECURSIVE OkRows(_)
OkRows(calls_) ==
    IF calls_ = <<>> THEN <<>>
    ELSE (IF Head(calls_).status = "ok" THEN <<Head(calls_).row>> ELSE <<>>) \o OkRows(Tail(calls_))

\* C8: once NewEncoder has returned an Encoder the output begins with the
\* header row, flushed; and when the calls of Write were made one after the
\* other and all have returned, the output is the header row followed by one
\* row per call that returned nil, in call order, with nothing left in the
\* buffer of the row writer.
C8_Output ==
    ephase = "ready" =>
        /\ Len(out) >= Len(HeaderRow) + 1
        /\ SubSeq(out, 1, Len(HeaderRow) + 1) = RowTokens(HeaderRow)
        /\ (Quiescent /\ ~overlapped) =>
             /\ Records(out) = <<HeaderRow>> \o OkRows(log)
             /\ wbuf = <<>>

C8_Witness ==
    /\ ephase = "ready" /\ Quiescent /\ ~overlapped
    /\ Len(log) = 2 /\ Len(OkRows(log)) = 2 /\ log[1].row # log[2].row
    /\ Len(Records(out)) = 3

\* thread p is between e.mu.Lock() and e.mu.Unlock()
InCritical(p) == w[p].pc \in {"locked", "written", "flushed"}

Count(seq, x) == Cardinality({i \in DOMAIN seq : seq[i] = x})

\* C9: no two calls of Write are at once between the lock and the unlock,
\* where the row is written and flushed; so every record of the output is the
\* whole row of one call, only the row being written can be incomplete, and
\* when all calls have returned the output holds the header row and each row
\* of a call that returned nil as often as it was written.
C9_MutualExclusion ==
    ephase = "ready" =>
        /\ \A p, q \in Writers : (p # q /\ InCritical(p)) => ~InCritical(q)
        /\ LET recs == Records(out \o wbuf)
           IN  /\ recs[1] = HeaderRow
               /\ \A k \in 2..Len(recs) :
                    \/ \E c \in DOMAIN log : log[c].status # "err" /\ log[c].row = recs[k]
                    \/ /\ k = Len(recs)
                       /\ \E p \in Writers :
                            /\ w[p].pc = "locked"
                            /\ recs[k] = SubSeq(w[p].rowValues, 1, w[p].ci)
               /\ Quiescent =>
                    /\ Len(recs) = 1 + Len(OkRows(log))
                    /\ \A c \in DOMAIN log :
                         log[c].status = "ok" =>
                             Count(Tail(recs), log[c].row) = Count(OkRows(log), log[c].row)

C9_Witness ==
    /\ ephase = "ready"
    /\ \E p, q \in Writers :
         /\ p # q
         /\ w[p].pc = "locked" /\ w[p].ci >= 1 /\ w[p].ci < Len(w[p].rowValues)
         /\ w[q].pc = "encoded"
         /\ w[q].e.mu = w[p].e.mu
         /\ w[q].rowValues # w[p].rowValues


(***************************************************************************)
(* C7                                                                      *)
(***************************************************************************)

\* the records handed to the calls of Write that returned nil, in call order
RECURSIVE OkSources(_)
OkSources(calls_) ==
    IF calls_ = <<>> THEN <<>>
    ELSE (IF Head(calls_).status = "ok" THEN <<Head(calls_).src>> ELSE <<>>)
             \o OkSources(Tail(calls_))

\* the last Read read back the row of a record that was written
ReadBackDone == ValidRead /\ nReads \in 1..nRows

\* the record whose row the last Read read back
Written == OkSources(log)[nReads]

DistinctNames ==
    \A j, k \in DOMAIN Fields :
        j # k => ~SameName(Fields[j].fieldName, Fields[k].fieldName)

\* the value v of a field survives its rendering and the reading of it
Survives(m, v) ==
    CASE m.fieldType = "String" -> TrimSpace(v) = v /\ (m.required => v # <<>>)
      [] m.fieldType = "Slice" /\ v.isNil -> ~m.required
      [] m.fieldType = "Slice" /\ m.sliceType = "Int" -> v.elems # <<>>
      [] m.fieldType = "Slice" ->
           /\ Join(v.elems, ",") # <<>>
           /\ TrimSpace(Join(v.elems, ",")) = Join(v.elems, ",")
           /\ \A e \in DOMAIN v.elems : \A c \in DOMAIN v.elems[e] : v.elems[e][c] # ","
      [] OTHER -> TRUE

FieldOf(record, i) == record[d.mappings[i].fieldIndex + 1]

\* C11: after a Read that returned nil, every field mapped to a column with a
\* non-empty cell holds the cell's value, and every field mapped to a column
\* with an empty cell holds the zero value of its type, also when the
\* destination is the record a previous Read has filled.
C11_EmptyCellZeroValue ==
    (ValidRead /\ lastErr = NilErr /\ lastRow # <<>>) =>
        /\ FilledFrom(lastRow, dest)
        /\ \A i \in DOMAIN lastRow :
             (Mapped(i) /\ TrimSpace(lastRow[i]) = <<>>)
                 => FieldOf(dest, i) = ZeroValue(FieldType(d.mappings[i]))

\* C12 as stated: a Read that fails because a required column has no value
\* leaves the destination equal to its value before the call.
C12_DestinationUntouched ==
    (ValidRead /\ lastErr.kind = "required but no value found") => dest = before

\* C12 (amended): a Read that fails because a required column has no value
\* modifies no field other than those mapped to an earlier column with a
\* non-empty cell, which hold the values of this row; so the destination
\* equals its value before the call when every earlier column is unmapped or
\* empty.
C12_RequiredMissingKeepsRest ==
    (ValidRead /\ lastErr.kind = "required but no value found") =>
        \E i \in DOMAIN lastRow :
            /\ RequiredEmpty(lastRow, i)
            /\ lastErr.name = d.mappings[i].fieldName
            /\ \A j \in 1..(i - 1) :
                 (Mapped(j) /\ TrimSpace(lastRow[j]) # <<>>)
                     => FieldOf(dest, j) = CellMeaning(d.mappings[j], lastRow[j])
            /\ \A k \in DOMAIN dest :
                 (\A j \in 1..(i - 1) :
                      ~(Mapped(j) /\ TrimSpace(lastRow[j]) # <<>>
                          /\ d.mappings[j].fieldIndex + 1 = k))
                     => dest[k] = before[k]

C12_Witness ==
    /\ ValidRead /\ lastErr.kind = "required but no value found"
    /\ dest # before
    /\ \E i \in DOMAIN lastRow : i > 1 /\ RequiredEmpty(lastRow, i)


(***************************************************************************)
(* C13                                                                     *)
(***************************************************************************)

\* the field carries a column name
Annotated(f) == ColumnName(f) # <<>>

\* the field's type is none of text, integer, boolean, list
Opaque(f) == KindOf(f.typ) \notin {"String", "Int", "Bool", "Slice"}

\* the type, or its pointer form, has the method
Capable(f, method) == method \in (ValMethods(f.typ) \cup PtrMethods(f.typ))

\* some annotated opaque field of the record type lacks the method
LacksCodec(t, method) ==
    \E i \in DOMAIN t.fields :
        Annotated(t.fields[i]) /\ Opaque(t.fields[i]) /\ ~Capable(t.fields[i], method)

Derivable(t) == structureFromStruct(t).err = NilErr

\* C13: for a record type whose schema derives, NewDecoder fails with the
\* "unsupported field type" error when some annotated opaque field has no
\* text decoder and NewEncoder fails with its counterpart when some has no
\* text encoder; and no Read of a Decoder and no Write of an Encoder that
\* were constructed ends in the "type not found" panic.
C13_CodecsAudited ==
    /\ (phase \in {"ready", "failed"} /\ Derivable(schema) /\ LacksCodec(schema, "UnmarshalText"))
           => (phase = "failed" /\ d = ZeroDecoder
                 /\ cerr.kind = "unsupported field type: TextUnmarshaler")
    /\ (ephase \in {"ready", "failed"} /\ Derivable(etype) /\ LacksCodec(etype, "MarshalText"))
           => (ephase = "failed" /\ enc = ZeroEncoder
                 /\ ecerr.kind = "unsupported field type: TextMarshaler")
    /\ phase = "ready" => ~LacksCodec(schema, "UnmarshalText")
    /\ ephase = "ready" => ~LacksCodec(etype, "MarshalText")
    /\ lastErr # TypeNotFound
    /\ \A k \in DOMAIN log : log[k].err # TypeNotFound

\* the Encoder was refused for a field without a text encoder, the Decoder
\* for the same record type was built and its Read used the field's decoder
C13_Witness ==
    /\ ephase = "failed" /\ ecerr.kind = "unsupported field type: TextMarshaler"
    /\ phase = "ready" /\ lastOp = "Read" /\ lastErr = NilErr /\ calls # <<>>
    /\ \E i \in DOMAIN d.mappings : ~Mapped(i)


(***************************************************************************)
(* C14                                                                     *)
(***************************************************************************)

\* the call of Write returned before the lock: nil source, custom encoder failed
FailedEarly(call) ==
    call.err.kind \in {"source cannot be nil", "failed to coerce using custom marshaler"}

\* the text encoder of some field of the record src returns an error
EncoderFails(src) ==
    \E k \in DOMAIN enc.mappings :
        LET idx == enc.mappings[k].fieldIndex + 1
        IN  /\ enc.mappings[k].customMarshaler
            /\ src[idx] = BadTime

\* a step in which a call of Write returns an error before the lock
FailedWriteStep ==
    /\ Len(log') = Len(log) + 1
    /\ log'[Len(log')].status = "err"

\* C14: a call of Write that fails because the source is nil or a custom
\* encoder returned an error puts nothing into the output or the row writer's
\* buffer, does not take the mutex and leaves the Encoder as it was; a call
\* handing over a record whose custom encoder fails does fail that way; and a
\* call made after it that returns nil has its whole row in the output.
C14_FailedWriteAppendsNothing ==
    /\ [][FailedWriteStep =>
             /\ FailedEarly(log'[Len(log')])
             /\ out' = out /\ wbuf' = wbuf /\ mutex' = mutex /\ enc' = enc
             /\ w'[log'[Len(log')].p].pc = "idle"
             /\ log'[Len(log')].row = <<>>]_vars
    /\ [](\A k \in DOMAIN log :
            /\ (EncoderFails(log[k].src) /\ ~IsPanic(log[k].err))
                   => (log[k].status = "err" /\ FailedEarly(log[k]))
            /\ FailedEarly(log[k]) =>
                   \A p \in Writers : InCritical(p) => w[p].call # k
            /\ (log[k].status = "ok" /\ \E j \in 1..(k - 1) : FailedEarly(log[j]))
                   => /\ Len(log[k].row) = Len(HeaderRow)
                      /\ \E n \in 2..Len(Records(out)) : Records(out)[n] = log[k].row)

\* a call of Write failed in a custom encoder and the next one returned nil
C14_Witness ==
    /\ ephase = "ready" /\ Quiescent
    /\ Len(log) = 2
    /\ log[1].err.kind = "failed to coerce using custom marshaler"
    /\ log[2].status = "ok"
    /\ Records(out) = <<HeaderRow, log[2].row>>


(***************************************************************************)
(* C15                                                                     *)
(***************************************************************************)

\* the header columns whose cell is the name of some field, after normalisation
MatchedColumns ==
    {i \in DOMAIN headers : \E k \in DOMAIN Fields : SameName(headers[i], Fields[k].fieldName)}

\* the n-th of them from the left
NthMatchedColumn(n) ==
    CHOOSE i \in MatchedColumns : Cardinality({j \in MatchedColumns : j <= i}) = n

C15_WitnessNone ==
    /\ phase = "ready" /\ lastOp = "MatchedHeaders"
    /\ MatchedColumns = {} /\ matched = <<>>


(***************************************************************************)
(* C16                                                                     *)
(***************************************************************************)

\* the field carries a column name and nothing derivation rejects: an
\* exported name, a tag of the form name or name,required, and a type that is
\* not a list of anything but text or integers
ValidField(f) ==
    /\ Annotated(f)
    /\ IsUpper(Head(f.name))
    /\ f.tag \in {Tag(ColumnName(f), FALSE), Tag(ColumnName(f), TRUE)}
    /\ f.typ \notin {"[]bool"}

\* the positions of the fields of t that carry a column name
AnnotatedPositions(t) == {i \in DOMAIN t.fields : Annotated(t.fields[i])}

\* the n-th of them in declaration order
NthAnnotated(t, n) ==
    CHOOSE i \in AnnotatedPositions(t) : Cardinality({j \in AnnotatedPositions(t) : j <= i}) = n

\* at least one field carries a column name, each one that does is valid,
\* the others have no tag, and no two column names are equal
WellFormed(t) ==
    /\ AnnotatedPositions(t) # {}
    /\ \A i \in DOMAIN t.fields : ValidField(t.fields[i]) \/ t.fields[i].tag = <<>>
    /\ \A i, j \in AnnotatedPositions(t) :
         i # j => ColumnName(t.fields[i]) # ColumnName(t.fields[j])

\* the descriptor at place n is that of the n-th field carrying a column name
DescribesNth(t, mappings, n) ==
    LET i == NthAnnotated(t, n)
        f == t.fields[i]
    IN  /\ mappings[n].fieldIndex = i - 1
        /\ mappings[n].fieldName = ColumnName(f)
        /\ mappings[n].required = (f.tag = Tag(ColumnName(f), TRUE))
        /\ mappings[n].fieldType = (IF Opaque(f) THEN "Invalid" ELSE KindOf(f.typ))

DerivationError(e) ==
    e.kind \in {"struct is nil", "malformed tag", "cannot access field", "unknown second value",
                "only string & int slices allowed", "two attributes", "no fields found"}

\* the errors of the audit loops of the constructors
AuditError(e) ==
    e.kind \in {"unsupported field type: TextUnmarshaler", "unsupported field type: TextMarshaler"}

\* C17: when the record type does not derive or one of its opaque fields
\* lacks the text decoder, NewDecoder fails with that error and has taken no
\* record from the reader, the header included; when it does not derive or an
\* opaque field lacks the text encoder, NewEncoder fails with that error and
\* nothing is in the output or in the row writer's buffer.
C17_FailsBeforeIO ==
    /\ (phase \in {"ready", "failed"}
          /\ (~Derivable(schema) \/ LacksCodec(schema, "UnmarshalText")))
           => /\ phase = "failed"
              /\ DerivationError(cerr) \/ AuditError(cerr)
              /\ DerivationError(cerr) <=> ~Derivable(schema)
              /\ pos = 0
    /\ (ephase \in {"ready", "failed"}
          /\ (~Derivable(etype) \/ LacksCodec(etype, "MarshalText")))
           => /\ ephase = "failed"
              /\ DerivationError(ecerr) \/ AuditError(ecerr)
              /\ DerivationError(ecerr) <=> ~Derivable(etype)
              /\ out = <<>> /\ wbuf = <<>> /\ log = <<>>

\* both constructors refused a record type with two fields of the same
\* column name, the input holding a header record and a data record
C17_Witness ==
    /\ phase = "failed" /\ cerr.kind = "two attributes"
    /\ ephase = "failed" /\ ecerr.kind = "two attributes"
    /\ hasHeader /\ nRows >= 1 /\ pos = 0 /\ out = <<>>

\* NewDecoder refused a record type for a field without a text decoder
C17_WitnessAudit ==
    /\ phase = "failed" /\ AuditError(cerr) /\ hasHeader /\ pos = 0


(***************************************************************************)
(* C18, C19, C20                                                           *)
(***************************************************************************)

\* C18: a Read whose row has a number of cells other than the number of
\* header columns fails with the error that carries the expected and the
\* actual number of columns, and leaves the destination as it was.
C18_ColumnCountError ==
    (ValidRead /\ lastRow # <<>> /\ Len(lastRow) # d.numColumns) =>
        /\ lastErr.kind = "expected columns"
        /\ lastErr.a = d.numColumns
        /\ lastErr.b = Len(lastRow)
        /\ dest = before

\* the fields whose name is that of header column i, after normalisation
MatchingFields(i) == {k \in DOMAIN Fields : SameName(headers[i], Fields[k].fieldName)}

\* the least of a non-empty set of positions
First(positions) == CHOOSE k \in positions : \A j \in positions : k <= j

\* C19: in a Decoder, the slot of each header column holds the first field in
\* declaration order whose normalized name is the normalized header cell, and
\* the empty slot when there is no such field.
C19_FirstFieldWins ==
    phase = "ready" =>
        \A i \in DOMAIN headers :
            d.mappings[i] = IF MatchingFields(i) = {} THEN ZeroField
                            ELSE Fields[First(MatchingFields(i))]

\* the header columns whose cell repeats that of an earlier column, after normalisation
RepeatedColumns == {j \in DOMAIN headers : \E i \in 1..(j - 1) : SameName(headers[i], headers[j])}

\* C20: the duplicate-header error of NewDecoder carries the header cell as
\* it stands in the header row, with its case and surrounding whitespace.
C20_RawTokenNamed ==
    (phase = "failed" /\ cerr.kind = "saw header column twice") =>
        /\ RepeatedColumns # {}
        /\ cerr.val = headers[First(RepeatedColumns)]


(***************************************************************************)
(* C21                                                                     *)
(***************************************************************************)

\* C21: a Decoder that was constructed has one slot per header column, as
\* many as the header row has cells and as numColumns says; and no call of
\* Read or MatchedHeaders, whatever it returns, changes the Decoder.
C21_MappingFixed ==
    /\ [](phase = "ready" =>
             /\ Len(d.mappings) = Len(headers)
             /\ d.numColumns = Len(headers))
    /\ [][phase = "ready" => d' = d]_vars

\* a Decoder with a slot for a column no field matches, after a failed Read,
\* a Read at the end of the input and a call of MatchedHeaders
C21_Witness ==
    /\ phase = "ready" /\ lastOp = "MatchedHeaders"
    /\ nFailed >= 1 /\ nEOF >= 1
    /\ Len(d.mappings) = 3 /\ ~Mapped(2) /\ Mapped(3)
    /\ Len(Fields) = 2


(***************************************************************************)
(* C22                                                                     *)
(***************************************************************************)

\* column i is mapped to a list-of-integer field
IntListColumn(i) ==
    /\ Mapped(i)
    /\ ~d.mappings[i].customUnmarshaler
    /\ d.mappings[i].fieldType = "Slice" /\ d.mappings[i].sliceType = "Int"

\* the comma-separated elements of a cell
Elements(cell) == Split(TrimSpace(cell), ",")

\* the first element of the cell that is no integer, counted from 0
FirstBadElement(cell) ==
    CHOOSE k \in 0..(Len(Elements(cell)) - 1) :
        /\ ~Atoi(Elements(cell)[k + 1]).ok
        /\ \A j \in 1..k : Atoi(Elements(cell)[j]).ok

\* C22: when a Read returns nil, every non-empty cell of a list-of-integer
\* column has only elements that parse and the field holds them in cell
\* order; when a Read fails on an element of such a cell, the error carries
\* that element and its index, the first that does not parse, and the field
\* holds the value it had before the call.
C22_IntListAllOrNothing ==
    (ValidRead /\ lastRow # <<>> /\ Len(lastRow) = d.numColumns) =>
        \A i \in DOMAIN lastRow :
            (IntListColumn(i) /\ TrimSpace(lastRow[i]) # <<>>) =>
                /\ lastErr = NilErr =>
                     /\ \A k \in DOMAIN Elements(lastRow[i]) : Atoi(Elements(lastRow[i])[k]).ok
                     /\ FieldOf(dest, i) =
                            Slice([k \in DOMAIN Elements(lastRow[i]) |->
                                      Atoi(Elements(lastRow[i])[k]).val])
                /\ (lastErr.kind = "failed to coerce element into integer"
                      /\ lastErr.name = d.mappings[i].fieldName) =>
                     /\ \E k \in DOMAIN Elements(lastRow[i]) : ~Atoi(Elements(lastRow[i])[k]).ok
                     /\ lastErr.a = FirstBadElement(lastRow[i])
                     /\ lastErr.val = Elements(lastRow[i])[FirstBadElement(lastRow[i]) + 1]
                     /\ FieldOf(dest, i) = FieldOf(before, i)
                /\ ((\E k \in DOMAIN Elements(lastRow[i]) : ~Atoi(Elements(lastRow[i])[k]).ok)
                      /\ \A j \in 1..(i - 1) : ~Mapped(j) \/ CellAccepted(d.mappings[j], lastRow[j]))
                     => (lastErr.kind = "failed to coerce element into integer"
                           /\ lastErr.name = d.mappings[i].fieldName)

\* a Read failing on the second element of a list-of-integer cell, into a
\* record whose list a previous Read has filled
C22_Witness ==
    /\ ValidRead /\ lastErr.kind = "failed to coerce element into integer"
    /\ lastErr.a = 1
    /\ \E i \in DOMAIN lastRow :
         /\ IntListColumn(i) /\ lastErr.name = d.mappings[i].fieldName
         /\ FieldOf(before, i) = Slice(<<1, 2>>)
         /\ FieldOf(dest, i) = Slice(<<1, 2>>)


(***************************************************************************)
(* C23                                                                     *)
(***************************************************************************)

\* thread p holds the mutex of the Encoder it works on
HoldsLock(p) == mutex[w[p].e.mu] = p

\* C23 as stated: a call of Write holds the lock from the reading and
\* rendering of the record's fields to the flush.
C23_LockAroundEncode ==
    \A p \in Writers : InProgress(p) => HoldsLock(p)

\* C23 (amended): a call of Write holds the lock while it writes the row and
\* flushes, and only then; the fields of the record are read and rendered
\* before the lock is taken, into a row of the call's own that is complete
\* when the call asks for the lock and is not changed under it; and nothing
\* reaches the row writer or the output but from the call holding the lock.
C23_LockAroundWriteAndFlush ==
    /\ [](\A p \in Writers :
            /\ InCritical(p) <=> (InProgress(p) /\ HoldsLock(p))
            /\ InProgress(p) => Len(w[p].rowValues) = Len(HeaderRow))
    /\ [][\A p \in Writers :
            /\ (InProgress(p) /\ InProgress(p)') => w'[p].rowValues = w[p].rowValues
            /\ (ephase = "ready" /\ (wbuf' # wbuf \/ out' # out) /\ w'[p] # w[p])
                   => (InCritical(p) /\ HoldsLock(p))]_vars

\* one call has rendered its row and waits while another, which holds the
\* lock, has flushed its row
C23_Witness ==
    \E p, q \in Writers :
        /\ p # q
        /\ w[p].pc = "encoded" /\ ~HoldsLock(p)
        /\ w[q].pc = "flushed" /\ HoldsLock(q)
        /\ w[p].e.mu = w[q].e.mu


(***************************************************************************)
(* C24                                                                     *)
(***************************************************************************)

\* the field has a tag whose column name is empty
EmptyName(f) == f.tag # <<>> /\ ColumnName(f) = <<>>

\* the record type with the tags of such fields taken away
WithoutEmptyNames(t) ==
    Struct([i \in DOMAIN t.fields |->
               IF EmptyName(t.fields[i])
               THEN FieldDecl(t.fields[i].name, <<>>, t.fields[i].typ)
               ELSE t.fields[i]])

\* C24 as stated: a field whose tag has an empty column name is left out of
\* the schema without an error, whatever follows the name in the tag:
\* derivation returns what it returns for the record type in which the field
\* has no tag.
C24_EmptyNameExcluded ==
    structureFromStruct(schema) = structureFromStruct(WithoutEmptyNames(schema))

\* the number of comma-separated tokens of the field's tag
Tokens(f) == Len(Split(f.tag, ","))

\* the record type with the tags of one or two tokens and an empty column
\* name taken away
WithoutShortEmptyNames(t) ==
    Struct([i \in DOMAIN t.fields |->
               IF EmptyName(t.fields[i]) /\ Tokens(t.fields[i]) <= 2
               THEN FieldDecl(t.fields[i].name, <<>>, t.fields[i].typ)
               ELSE t.fields[i]])

\* C24 (amended): a field whose tag has an empty column name followed by
\* nothing or by one more token, "required" or any other, is left out of the
\* schema without an error, as if it had no tag; a tag of more than two
\* tokens fails derivation, with an empty column name as with any other.
C24_EmptyNameShortTag ==
    /\ structureFromStruct(schema) = structureFromStruct(WithoutShortEmptyNames(schema))
    /\ ephase = "ready" => enc.mappings = structureFromStruct(WithoutShortEmptyNames(schema)).mappings
    /\ (\E i \in DOMAIN schema.fields : Tokens(schema.fields[i]) > 2) => ~Derivable(schema)
    /\ (EmptyName(schema.fields[1]) /\ Tokens(schema.fields[1]) > 2)
           => /\ structureFromStruct(schema).err.kind = "malformed tag"
              /\ structureFromStruct(schema).err.a = Tokens(schema.fields[1])

\* an Encoder built for a record type whose first field is tagged `csv:",x"`
C24_Witness ==
    /\ ephase = "ready"
    /\ EmptyName(schema.fields[1]) /\ schema.fields[1].tag = <<",", "x">>
    /\ Len(enc.mappings) = 1 /\ enc.mappings[1].fieldIndex = 1


(***************************************************************************)
(* C25                                                                     *)
(***************************************************************************)

\* the last Read failed on a cell of a row of the right shape
FailedOnCell ==
    /\ ValidRead /\ lastRow # <<>> /\ Len(lastRow) = d.numColumns
    /\ lastErr # NilErr

\* the first column of the row whose cell its field does not accept
FailingColumn ==
    First({i \in DOMAIN lastRow : Mapped(i) /\ ~CellAccepted(d.mappings[i], lastRow[i])})

\* the fields mapped to the columns before the failing one hold this row's values
EarlierColumnsDecoded ==
    \A j \in 1..(FailingColumn - 1) :
        (Mapped(j) /\ TrimSpace(lastRow[j]) # <<>>)
            => FieldOf(dest, j) = CellMeaning(d.mappings[j], lastRow[j])

\* C25 as stated: when Read fails at column i, the fields mapped to earlier
\* columns with a non-empty cell hold the values of this row and the fields
\* mapped to column i or a later column keep their values from before the call.
C25_StopsAtFirstFailure ==
    FailedOnCell =>
        /\ lastErr.name = d.mappings[FailingColumn].fieldName
        /\ EarlierColumnsDecoded
        /\ \A j \in FailingColumn..Len(lastRow) :
             Mapped(j) => FieldOf(dest, j) = FieldOf(before, j)

\* C25 (amended): when Read fails at column i, the fields mapped to earlier
\* columns with a non-empty cell hold the values of this row; the fields
\* mapped to later columns keep their values from before the call, and so
\* does the field of column i unless it is decoded by a custom text decoder,
\* which is handed the field (allocated, if it was a nil pointer) and leaves
\* it as that decoder does on failure.
C25_StopsAtFirstFailureBuiltin ==
    FailedOnCell =>
        /\ lastErr.name = d.mappings[FailingColumn].fieldName
        /\ EarlierColumnsDecoded
        /\ \A j \in (FailingColumn + 1)..Len(lastRow) :
             Mapped(j) => FieldOf(dest, j) = FieldOf(before, j)
        /\ (~d.mappings[FailingColumn].customUnmarshaler
              \/ lastErr.kind = "required but no value found")
               => FieldOf(dest, FailingColumn) = FieldOf(before, FailingColumn)
        /\ (lastErr.kind = "failed to coerce using custom marshaler"
              /\ KindOf(FieldType(d.mappings[FailingColumn])) = "Ptr")
               => ~FieldOf(dest, FailingColumn).isNil

\* a Read failing at the second column into the record of a previous Read:
\* the first field has this row's value, the second its previous one
C25_Witness ==
    /\ FailedOnCell /\ FailingColumn = 2 /\ Mapped(1)
    /\ ~d.mappings[2].customUnmarshaler
    /\ FieldOf(dest, 1) # FieldOf(before, 1)
    /\ FieldOf(dest, 2) = FieldOf(before, 2)
    /\ FieldOf(before, 2) # ZeroValue(FieldType(d.mappings[2]))


(***************************************************************************)
(* C26                                                                     *)
(***************************************************************************)

\* no pointer field of the record is nil
NoNilPointer(src) ==
    \A i \in DOMAIN src : KindOf(etype.fields[i].typ) = "Ptr" => ~src[i].isNil

\* C26: no call of Write on an Encoder that NewEncoder returned panics when
\* it is handed a record without nil pointers: it returns nil or the error of
\* a custom text encoder, and the row of a call that returned nil has one
\* cell per descriptor.
C26_WriteNeverPanics ==
    \A k \in DOMAIN log :
        NoNilPointer(log[k].src) =>
            /\ ~IsPanic(log[k].err)
            /\ log[k].status \in {"running", "ok", "err"}
            /\ log[k].status = "ok" => Len(log[k].row) = Len(enc.mappings)


(***************************************************************************)
(* C27                                                                     *)
(***************************************************************************)

\* the field at place k of the record is named by no header cell
Unmatched(k) ==
    \A i \in DOMAIN headers : \A f \in MatchingFields(i) : Fields[f].fieldIndex + 1 # k

\* C27: a call of Read, whatever it returns, leaves every field of the
\* destination that no header cell names as it was: the fields without a
\* tag, the tagged fields whose column the header lacks; the cell of a column
\* that matches no field is assigned to nothing.
C27_UnmatchedFieldsKept ==
    (phase = "ready" /\ lastOp = "Read") =>
        \A k \in DOMAIN dest : Unmatched(k) => dest[k] = before[k]

\* a Read returning nil on a row with a non-empty cell in a column matching
\* no field, into a record with a value in a field no header cell names
C27_Witness ==
    /\ phase = "ready" /\ lastOp = "Read" /\ lastErr = NilErr /\ lastRow # <<>>
    /\ dest # before
    /\ \E i \in DOMAIN lastRow : MatchingFields(i) = {} /\ lastRow[i] # <<>>
    /\ \E k \in DOMAIN dest :
         /\ Unmatched(k) /\ schema.fields[k].tag # <<>>
         /\ dest[k] = SampleValue(schema.fields[k].typ)

\* a failing Read into a record with a value in a field without a tag
C27_WitnessFailed ==
    /\ phase = "ready" /\ lastOp = "Read" /\ RowContentError(lastErr)
    /\ dest # before
    /\ \E k \in DOMAIN dest :
         /\ schema.fields[k].tag = <<>>
         /\ dest[k] = SampleValue(schema.fields[k].typ)


(***************************************************************************)
(* C28                                                                     *)
(***************************************************************************)

\* C28: a mutex is held only by a call of Write that is between its Lock
\* and its Unlock; it is released when the row has been flushed, whether the
\* row writer accepted the row or not; and under fair scheduling every call
\* of Write that is in progress returns.
C28_LockReleased ==
    /\ [](\A m \in DOMAIN mutex :
            mutex[m] # 0 => (InCritical(mutex[m]) /\ w[mutex[m]].e.mu = m))
    /\ [][\A m \in DOMAIN mutex :
            (mutex[m] # 0 /\ mutex'[m] = 0)
                => /\ w[mutex[m]].pc = "flushed"
                   /\ wbuf = <<>>
                   /\ w'[mutex[m]].pc = "idle"]_vars
    /\ \A p \in Writers : InProgress(p) ~> (w[p].pc = "idle")

\* the row writer refused the row of the first call; the call returned the
\* error, the mutex is free and a later call has returned nil
C28_Witness ==
    /\ ephase = "ready" /\ Quiescent
    /\ Len(log) = 2
    /\ log[1].err.kind = "row writer failed"
    /\ log[2].status = "ok"
    /\ \A m \in DOMAIN mutex : mutex[m] = 0

====
